---------------------------- MODULE Spec2Model ----------------------------
(***************************************************************************)
(* modelipy: a Model is built by the functions of model.py and written out *)
(* by the PrettyPrinter of output.py.                                      *)
(*                                                                         *)
(* Every Python object is a record tagged with its type (field t), a dict  *)
(* is the sequence of its items in insertion order, and a text is the      *)
(* sequence of the pieces written, a line break being the piece NL.        *)
(***************************************************************************)
EXTENDS Integers, Sequences, FiniteSets, TLC

VARIABLES
    model,      \* the Model the builder functions work on
    call,       \* the most recent call: its name and arguments
    exc,        \* the exception the most recent call raised, NoExc if none
    ret,        \* what the most recent pprint returned
    stream,     \* what the most recent pprint wrote to the caller's stream
    stdout,     \* what the most recent pprint wrote to sys.stdout on the side
    printer,    \* the PrettyPrinter's fields when the most recent pprint ended
    memo,       \* an earlier render of the unchanged model: its options and outcome
    input       \* the value under test of the value-rendering specification

vars == <<model, call, exc, ret, stream, stdout, printer, memo, input>>

-----------------------------------------------------------------------------
(* Bounds of the model *)

\* most nodes the six sections of the Model hold together
MaxNodes == 2

-----------------------------------------------------------------------------
(* Python values *)

NoneV == [t |-> "none"]
BoolV(b) == [t |-> "bool", b |-> b]
IntV(i) == [t |-> "int", i |-> i]
StrV(s) == [t |-> "str", s |-> s]
TupleV(es) == [t |-> "tuple", elems |-> es]
ListV(es) == [t |-> "list", elems |-> es]
FlagsV(S) == [t |-> "flags", set |-> S]

\* dict: the items in insertion order
Item(k, v) == [key |-> k, val |-> v]
DictV(its) == [t |-> "dict", items |-> its]
EmptyDict == DictV(<<>>)
DictLen(d) == Len(d.items)
Keys(d) == {d.items[i].key : i \in DOMAIN d.items}
IndexOf(d, k) == CHOOSE i \in DOMAIN d.items : d.items[i].key = k
DictGet(d, k) == d.items[IndexOf(d, k)].val
\* d[k] = v: a new key goes last, an old key keeps its place
DictSet(d, k, v) ==
    IF k \in Keys(d)
    THEN [d EXCEPT !.items[IndexOf(d, k)].val = v]
    ELSE [d EXCEPT !.items = Append(@, Item(k, v))]
\* d.setdefault(k, v), as the dict it leaves
setdefault(d, k, v) == IF k \in Keys(d) THEN d ELSE DictSet(d, k, v)
\* {k: d[k] for k in d if k in ks}
Restrict(d, ks) == DictV(SelectSeq(d.items, LAMBDA it : it.key \in ks))

IsDict(v) == v.t = "dict"
IsStr(v) == v.t = "str"

NoExc == "none"

-----------------------------------------------------------------------------
(* component.py *)

ComponentFlagNames == {"Final", "Inner", "Outer", "Replaceable"}

\* str2ComponentFlags: the flag each known word names
str2ComponentFlags ==
    [w \in {"final", "inner", "outer", "replaceable"} |->
        CASE w = "final" -> "Final"
          [] w = "inner" -> "Inner"
          [] w = "outer" -> "Outer"
          [] w = "replaceable" -> "Replaceable"]

\* the keyword-only parameters of Component.__init__
ComponentKeywords ==
    {"flags", "variability", "causality", "flux", "subscripts", "condition",
     "constraint", "description", "annotation"}

\* kw.get(k, None)
KwGet(kw, k) == IF k \in Keys(kw) THEN DictGet(kw, k) ELSE NoneV

\* Component.__init__(type, ident, value, init, **kw), kw within ComponentKeywords
Component(type, ident, value, init, kw) ==
    [t |-> "Component",
     type |-> type,
     ident |-> ident,
     value |-> value,
     init |-> IF init = NoneV THEN EmptyDict ELSE init,
     flags |-> KwGet(kw, "flags"),
     variability |-> KwGet(kw, "variability"),
     causality |-> KwGet(kw, "causality"),
     flux |-> KwGet(kw, "flux"),
     subscripts |-> IF KwGet(kw, "subscripts") = NoneV THEN ListV(<<>>)
                    ELSE KwGet(kw, "subscripts"),
     condition |-> KwGet(kw, "condition"),
     constraint |-> KwGet(kw, "constraint"),
     description |-> KwGet(kw, "description"),
     annotation |-> IF KwGet(kw, "annotation") = NoneV THEN EmptyDict
                    ELSE KwGet(kw, "annotation")]

\* set_placement's default size
DefaultSize == 10

\* the parameters of set_placement after the component
PlacementKeywords == {"pos", "flip", "rotation", "size", "visible"}

\* set_placement(component, **kw), kw holding pos: the component it leaves
set_placement(c, kw) ==
    LET size == IF "size" \in Keys(kw) THEN DictGet(kw, "size").i ELSE DefaultSize
        flip == KwGet(kw, "flip")
        anno0 == setdefault(c.annotation, "Placement", EmptyDict)
        plc0 == DictGet(anno0, "Placement")
        plc1 == IF KwGet(kw, "visible") # NoneV
                THEN DictSet(plc0, "visible", KwGet(kw, "visible")) ELSE plc0
        plc2 == setdefault(plc1, "transformation", EmptyDict)
        tr0 == DictGet(plc2, "transformation")
        pair(a, b) == ListV(<<IntV(a), IntV(b)>>)
        extent == IF flip = StrV("horiz")
                  THEN ListV(<<pair(size, -size), pair(-size, size)>>)
                  ELSE IF flip = StrV("vert")
                  THEN ListV(<<pair(-size, size), pair(size, -size)>>)
                  ELSE ListV(<<pair(-size, -size), pair(size, size)>>)
        tr1 == DictSet(tr0, "extent", extent)
        tr2 == IF KwGet(kw, "rotation") # NoneV
               THEN DictSet(tr1, "rotation", KwGet(kw, "rotation")) ELSE tr1
        tr3 == DictSet(tr2, "origin", DictGet(kw, "pos"))
    IN  [c EXCEPT !.annotation =
            DictSet(anno0, "Placement", DictSet(plc2, "transformation", tr3))]

-----------------------------------------------------------------------------
(* misc.py *)

Equation(left, right) ==
    [t |-> "Equation", left |-> left, right |-> right,
     description |-> NoneV, annotation |-> EmptyDict]

Connect(ref1, ref2, description) ==
    [t |-> "Connect", ref1 |-> ref1, ref2 |-> ref2,
     description |-> description, annotation |-> EmptyDict]

\* Algorithm(left, right, description=, annotation=): annotation may stay None
Algorithm(left, right, description, annotation) ==
    [t |-> "Algorithm", left |-> left, right |-> right,
     description |-> description, annotation |-> annotation]

Statement(value) == [t |-> "Statement", value |-> value]

Expression(value) == [t |-> "Expression", value |-> value]

Extends(name) == [t |-> "Extends", name |-> name]

\* Text(lines, indent): a list of lines with an indent attribute
Text(lines, indent) == [t |-> "Text", lines |-> lines, indent |-> indent]

\* the Assign that Assign.__init__ leaves when its assertions pass (fmt is "")
Assign(value, init, flags, description, annotation, type) ==
    [t |-> "Assign", value |-> value,
     init |-> IF init = NoneV THEN EmptyDict ELSE init,
     flags |-> flags, description |-> description,
     annotation |-> IF annotation = NoneV THEN EmptyDict ELSE annotation,
     type |-> type]

QualifiedImport(name) == [t |-> "QualifiedImport", name |-> name]

MultiImport(path, names) == [t |-> "MultiImport", path |-> path, names |-> names]

NamedImport(short, long) == [t |-> "NamedImport", short |-> short, long |-> long]

\* Within.from_str(s)
Within(s) == [t |-> "Within", name |-> IF s = "" THEN NoneV ELSE StrV(s)]

-----------------------------------------------------------------------------
(* condition.py: the finished constructs *)

\* a branch of an elseif or elsewhen list: the tuple (test, body)
Branch(test, body) == [test |-> test, body |-> body]

\* IfEquation(test, body, elseif, orelse): orelse is None or a list
IfEquation(test, body, elseif, orelse) ==
    [t |-> "IfEquation", test |-> test, body |-> body, elseif |-> elseif,
     orelse |-> orelse]

WhenEquation(test, body, elsewhen) ==
    [t |-> "WhenEquation", test |-> test, body |-> body, elsewhen |-> elsewhen]

\* If(test).then(*body).end()
IfEquationBody_end(test, body) == IfEquation(test, body, <<>>, NoneV)

\* If(test).then(*body).elseif(t2).then(*b2).end()
IfEquationElseif_end(test, body, elseif) == IfEquation(test, body, elseif, NoneV)

\* If(test).then(*body).elseif(t2).then(*b2).orelse(*b3).end(): orelse is a list
IfEquationOrelse_end(test, body, elseif, orelse) ==
    IfEquation(test, body, elseif, ListV(orelse))

\* When(test).then(*body).end()
WhenEquationBody_end(test, body) == WhenEquation(test, body, <<>>)

-----------------------------------------------------------------------------
(* condition.py: the staged builders.  A method is an operator from the    *)
(* object it is called on and its arguments to what the call gives: the    *)
(* object returned, or the exception raised.  *body is the sequence of the *)
(* positional arguments; the fields _elseif, _orelse and _elsewhen are     *)
(* written elseif, orelse and elsewhen.                                    *)

Gives(o) == [ret |-> o, exc |-> NoExc]
Fails(e) == [ret |-> NoneV, exc |-> e]

\* all(isinstance(b, cls) for b in body)
AllOf(body, cls) == \A i \in DOMAIN body : body[i].t = cls

\* the assert of a first then/loop call, and the object it returns
FirstBody(body, cls, o) ==
    IF AllOf(body, cls) THEN Gives(o) ELSE Fails("AssertionError")

\* If.then(*body)
If_then(self, body) ==
    IF Len(body) = 0 THEN Fails("AssertionError")
    ELSE IF body[1].t = "Equation"
    THEN FirstBody(body, "Equation",
                   [t |-> "IfEquationBody", test |-> self.test, body |-> body])
    ELSE IF body[1].t = "Statement"
    THEN FirstBody(body, "Statement",
                   [t |-> "IfStatementBody", test |-> self.test, body |-> body])
    ELSE IF body[1].t # "Expression" \/ Len(body) # 1 THEN Fails("AssertionError")
    ELSE Gives([t |-> "IfExpressionBody", test |-> self.test, body |-> body[1],
                elseif |-> <<>>])

\* When.then(*body)
When_then(self, body) ==
    IF Len(body) = 0 THEN Fails("AssertionError")
    ELSE IF body[1].t = "Equation"
    THEN FirstBody(body, "Equation",
                   [t |-> "WhenEquationBody", test |-> self.test, body |-> body])
    ELSE FirstBody(body, "Statement",
                   [t |-> "WhenStatementBody", test |-> self.test, body |-> body])

\* For.loop(*body)
For_loop(self, body) ==
    IF Len(body) = 0 THEN Fails("AssertionError")
    ELSE IF body[1].t = "Equation"
    THEN FirstBody(body, "Equation",
                   [t |-> "ForEquation", indices |-> self.indices, body |-> body])
    ELSE FirstBody(body, "Statement",
                   [t |-> "ForStatement", indices |-> self.indices, body |-> body])

\* While.loop(*body)
While_loop(self, body) ==
    IF Len(body) = 0 THEN Fails("AssertionError")
    ELSE IF body[1].t = "Equation"
    THEN FirstBody(body, "Equation",
                   [t |-> "WhileEquation", test |-> self.test, body |-> body])
    ELSE FirstBody(body, "Statement",
                   [t |-> "WhileStatement", test |-> self.test, body |-> body])

\* the classes that have a method of the name
HasMethod(name) ==
    CASE name = "then" ->
            {"If", "When", "IfEquationBody", "IfStatementBody", "IfEquationElseif",
             "IfStatementElseif", "IfEquationOrelse", "IfStatementOrelse",
             "IfExpressionElseif", "WhenEquationBody", "WhenStatementBody",
             "WhenEquationElsewhen", "WhenStatementElsewhen"}
      [] name = "elseif" ->
            {"IfEquationBody", "IfStatementBody", "IfEquationElseif",
             "IfStatementElseif", "IfExpressionBody"}
      [] name = "elsewhen" ->
            {"WhenEquationBody", "WhenStatementBody", "WhenEquationElsewhen",
             "WhenStatementElsewhen"}
      [] name = "orelse" ->
            {"IfEquationBody", "IfStatementBody", "IfEquationElseif",
             "IfStatementElseif", "IfEquationOrelse", "IfStatementOrelse",
             "IfExpressionBody"}
      [] name = "loop" -> {"For", "While", "ForEquation", "ForStatement"}
      [] name = "end" ->
            {"If", "When", "IfEquationBody", "IfStatementBody", "IfEquationElseif",
             "IfStatementElseif", "IfEquationOrelse", "IfStatementOrelse",
             "IfExpression", "WhenEquationBody", "WhenStatementBody",
             "WhenEquationElsewhen", "WhenStatementElsewhen", "ForEquation",
             "ForStatement", "WhileStatement"}

\* then(*body) of the class of self; IfExpressionElseif.then takes one body
then(self, body) ==
    CASE self.t = "If" -> If_then(self, body)
      [] self.t = "When" -> When_then(self, body)
      [] self.t \in {"IfEquationBody", "IfStatementBody", "WhenEquationBody",
                     "WhenStatementBody"} ->
            Gives([self EXCEPT !.body = @ \o body])
      [] self.t \in {"IfEquationElseif", "IfStatementElseif"} ->
            Gives([self EXCEPT !.elseif[Len(self.elseif)].body = @ \o body])
      [] self.t \in {"WhenEquationElsewhen", "WhenStatementElsewhen"} ->
            Gives([self EXCEPT !.elsewhen[Len(self.elsewhen)].body = @ \o body])
      [] self.t \in {"IfEquationOrelse", "IfStatementOrelse"} ->
            Gives([self EXCEPT !.orelse = @ \o body])
      [] self.t = "IfExpressionElseif" ->
            IF Len(body) # 1 THEN Fails("TypeError")
            ELSE Gives([self.if_expression_body EXCEPT
                            !.elseif = Append(@, Branch(self.elseif_test, body[1]))])

\* elseif(test) of the class of self
elseif(self, test) ==
    CASE self.t = "IfEquationBody" ->
            Gives([t |-> "IfEquationElseif", test |-> self.test, body |-> self.body,
                   elseif |-> <<Branch(test, <<>>)>>])
      [] self.t = "IfStatementBody" ->
            Gives([t |-> "IfStatementElseif", test |-> self.test, body |-> self.body,
                   elseif |-> <<Branch(test, <<>>)>>])
      [] self.t \in {"IfEquationElseif", "IfStatementElseif"} ->
            Gives([self EXCEPT !.elseif = Append(@, Branch(test, <<>>))])
      [] self.t = "IfExpressionBody" ->
            Gives([t |-> "IfExpressionElseif", if_expression_body |-> self,
                   elseif_test |-> test])

\* elsewhen(test) of the class of self
elsewhen(self, test) ==
    CASE self.t = "WhenEquationBody" ->
            Gives([t |-> "WhenEquationElsewhen", test |-> self.test,
                   body |-> self.body, elsewhen |-> <<Branch(test, <<>>)>>])
      [] self.t = "WhenStatementBody" ->
            Gives([t |-> "WhenStatementElsewhen", test |-> self.test,
                   body |-> self.body, elsewhen |-> <<Branch(test, <<>>)>>])
      [] self.t \in {"WhenEquationElsewhen", "WhenStatementElsewhen"} ->
            Gives([self EXCEPT !.elsewhen = Append(@, Branch(test, <<>>))])

\* orelse(*body) of the class of self; IfExpressionBody.orelse takes one body
orelse(self, body) ==
    CASE self.t \in {"IfEquationBody", "IfStatementBody"} -> Fails("NotImplementedError")
      [] self.t = "IfEquationElseif" ->
            Gives([t |-> "IfEquationOrelse", test |-> self.test, body |-> self.body,
                   elseif |-> self.elseif, orelse |-> body])
      [] self.t = "IfStatementElseif" ->
            Gives([t |-> "IfStatementOrelse", test |-> self.test, body |-> self.body,
                   elseif |-> self.elseif, orelse |-> body])
      [] self.t \in {"IfEquationOrelse", "IfStatementOrelse"} ->
            Gives([self EXCEPT !.orelse = @ \o body])
      [] self.t = "IfExpressionBody" ->
            IF Len(body) # 1 THEN Fails("TypeError")
            ELSE Gives([t |-> "IfExpression", test |-> self.test, body |-> self.body,
                        elseif |-> <<>>, orelse |-> body[1]])

\* loop(*body) of the class of self
loop(self, body) ==
    CASE self.t = "For" -> For_loop(self, body)
      [] self.t = "While" -> While_loop(self, body)
      [] self.t \in {"ForEquation", "ForStatement"} ->
            Gives([self EXCEPT !.body = @ \o body])

\* end() of the class of self
end(self) ==
    CASE self.t = "If" -> Gives(IfEquationBody_end(self.test, <<>>))
      [] self.t = "When" -> Gives(WhenEquationBody_end(self.test, <<>>))
      [] self.t = "IfEquationBody" -> Gives(IfEquationBody_end(self.test, self.body))
      [] self.t = "IfEquationElseif" ->
            Gives(IfEquationElseif_end(self.test, self.body, self.elseif))
      [] self.t = "IfEquationOrelse" ->
            Gives(IfEquationOrelse_end(self.test, self.body, self.elseif, self.orelse))
      [] self.t = "IfStatementBody" ->
            Gives([t |-> "IfStatement", test |-> self.test, body |-> self.body,
                   elseif |-> <<>>, orelse |-> NoneV])
      [] self.t = "IfStatementElseif" ->
            Gives([t |-> "IfStatement", test |-> self.test, body |-> self.body,
                   elseif |-> self.elseif, orelse |-> NoneV])
      [] self.t = "IfStatementOrelse" ->
            Gives([t |-> "IfStatement", test |-> self.test, body |-> self.body,
                   elseif |-> self.elseif, orelse |-> ListV(self.orelse)])
      [] self.t = "WhenEquationBody" -> Gives(WhenEquationBody_end(self.test, self.body))
      [] self.t = "WhenEquationElsewhen" ->
            Gives(WhenEquation(self.test, self.body, self.elsewhen))
      [] self.t = "WhenStatementBody" ->
            Gives([t |-> "WhenStatement", test |-> self.test, body |-> self.body,
                   elsewhen |-> <<>>])
      [] self.t = "WhenStatementElsewhen" ->
            Gives([t |-> "WhenStatement", test |-> self.test, body |-> self.body,
                   elsewhen |-> self.elsewhen])
      [] self.t \in {"IfExpression", "ForEquation", "ForStatement", "WhileStatement"} ->
            Gives(self)

-----------------------------------------------------------------------------
(* model.py: the Model and its builder functions.  A builder is an operator *)
(* from the Model before the call to Outcome(model after, exception).       *)

\* Model.__init__ with its defaults
Model(ident) ==
    [t |-> "Model",
     ident |-> ident,
     description |-> NoneV,
     within |-> NoneV,
     flags |-> NoneV,
     annotation |-> EmptyDict,
     components |-> <<>>,
     public_section |-> <<>>,
     protected_section |-> <<>>,
     initial_equations |-> <<>>,
     initial_algorithms |-> <<>>,
     equations |-> <<>>,
     algorithms |-> <<>>]

Returns(m) == [model |-> m, exc |-> NoExc]
Raises(m, e) == [model |-> m, exc |-> e]

\* every node the Model holds in a section
NodeCount(m) ==
    Len(m.public_section) + Len(m.protected_section) + Len(m.initial_equations)
    + Len(m.initial_algorithms) + Len(m.equations) + Len(m.algorithms)

\* the nodes declared in the public and protected sections, in that order
Declarations(m) == m.public_section \o m.protected_section

\* an add that takes a name it does not know for the public section
Model_add_lenient(m, some, where) ==
    CASE where = "protected" ->
            Returns([m EXCEPT !.protected_section = Append(@, some)])
      [] where = "initial equation" ->
            Returns([m EXCEPT !.initial_equations = Append(@, some)])
      [] where = "initial algorithm" ->
            Returns([m EXCEPT !.initial_algorithms = Append(@, some)])
      [] where = "equation" ->
            Returns([m EXCEPT !.equations = Append(@, some)])
      [] where = "algorithm" ->
            Returns([m EXCEPT !.algorithms = Append(@, some)])
      [] OTHER -> Returns([m EXCEPT !.public_section = Append(@, some)])

\* Model.add(some, where)
Model_add(m, some, where) ==
    CASE where = "public" ->
            Returns([m EXCEPT !.public_section = Append(@, some)])
      [] where = "protected" ->
            Returns([m EXCEPT !.protected_section = Append(@, some)])
      [] where = "initial equation" ->
            Returns([m EXCEPT !.initial_equations = Append(@, some)])
      [] where = "initial algorithm" ->
            Returns([m EXCEPT !.initial_algorithms = Append(@, some)])
      [] where = "equation" ->
            Returns([m EXCEPT !.equations = Append(@, some)])
      [] where = "algorithm" ->
            Returns([m EXCEPT !.algorithms = Append(@, some)])
      [] OTHER -> Raises(m, "ValueError")

\* flags.split() of the flag strings the calls pass
SplitWords(s) ==
    CASE s = "" -> <<>>
      [] s = "final" -> <<"final">>
      [] s = "final inner" -> <<"final", "inner">>
      [] s = "inner final" -> <<"inner", "final">>
      [] s = "outer replaceable" -> <<"outer", "replaceable">>
      [] s = "bogus" -> <<"bogus">>
      [] s = "final bogus" -> <<"final", "bogus">>

\* add_component from the flags on (lines 232-267): the identifier is not registered
add_component_new(m, a) ==
    LET value_is_dict == IsDict(a.value)
        init1 == IF value_is_dict THEN a.value ELSE a.init
        value1 == IF value_is_dict THEN NoneV ELSE a.value
        parts == IF IsStr(a.flags) THEN SplitWords(a.flags.s) ELSE <<>>
        unknown_flag == \E i \in DOMAIN parts : parts[i] \notin DOMAIN str2ComponentFlags
        kwargs1 ==
            IF IsStr(a.flags)
            THEN IF Len(parts) > 0
                 THEN DictSet(a.kwargs, "flags",
                        FlagsV({str2ComponentFlags[parts[i]] : i \in DOMAIN parts}))
                 ELSE a.kwargs
            ELSE IF a.flags.t = "flags" THEN DictSet(a.kwargs, "flags", a.flags)
            ELSE a.kwargs
        valid_pos_keys == {"pos", "size", "rotation", "flip"}
        pos_keys == Keys(kwargs1) \cap valid_pos_keys
        component_kwargs0 == Restrict(kwargs1, Keys(kwargs1) \ pos_keys)
        component_kwargs ==
            IF a.parameter
            THEN DictSet(component_kwargs0, "variability", StrV("parameter"))
            ELSE component_kwargs0
        init2 == IF init1 = NoneV THEN EmptyDict ELSE init1
        c0 == Component(a.typ, a.ident, value1, init2, component_kwargs)
        pos_dict == Restrict(kwargs1, pos_keys)
        c == IF pos_keys # {} THEN set_placement(c0, pos_dict) ELSE c0
        m1 == IF a.protected
              THEN [m EXCEPT !.protected_section = Append(@, c)]
              ELSE [m EXCEPT !.public_section = Append(@, c)]
    IN  IF value_is_dict /\ IsDict(a.init) THEN Raises(m, "AssertionError")
        ELSE IF IsStr(a.flags) /\ unknown_flag THEN Raises(m, "KeyError")
        ELSE IF a.flags.t \notin {"str", "flags", "none"} THEN Raises(m, "AssertionError")
        ELSE IF ~(Keys(component_kwargs) \subseteq ComponentKeywords)
             THEN Raises(m, "TypeError")
        ELSE IF pos_keys # {} /\ "pos" \notin pos_keys THEN Raises(m, "TypeError")
        ELSE Returns([m1 EXCEPT !.components = (a.ident :> c) @@ @])

\* add_component without its test of the registry: a repeated identifier
\* is added again and replaces the registered component
add_component_unchecked(m, a) == add_component_new(m, a)

\* add_component(model, typ, ident, value, init=, protected=, parameter=, flags=, **kwargs)
add_component(m, a) ==
    IF a.ident \in DOMAIN m.components
    THEN Raises(m, "KeyError")
    ELSE add_component_new(m, a)

\* add_parameter that does not pass protected on: the parameter goes to
\* the public section
add_parameter_public(m, a) ==
    add_component(m, [a EXCEPT !.parameter = TRUE, !.protected = FALSE])

\* add_parameter(model, typ, ident, value, init=, protected=, **kwargs)
add_parameter(m, a) ==
    add_component(m, [a EXCEPT !.parameter = TRUE])

\* sep.join(ss) of a sequence of strings
RECURSIVE Join(_, _)
Join(ss, sep) ==
    IF Len(ss) = 0 THEN ""
    ELSE IF Len(ss) = 1 THEN ss[1]
    ELSE ss[1] \o sep \o Join(Tail(ss), sep)

\* repr(v): what str() of a list or tuple shows of its elements
RECURSIVE PyRepr(_)
PyRepr(v) ==
    CASE v.t = "str" -> "'" \o v.s \o "'"
      [] v.t = "int" -> ToString(v.i)
      [] v.t = "bool" -> IF v.b THEN "True" ELSE "False"
      [] v.t = "none" -> "None"
      [] v.t = "list" ->
            "[" \o Join([i \in DOMAIN v.elems |-> PyRepr(v.elems[i])], ", ") \o "]"
      [] v.t = "tuple" ->
            IF Len(v.elems) = 1 THEN "(" \o PyRepr(v.elems[1]) \o ",)"
            ELSE "(" \o Join([i \in DOMAIN v.elems |-> PyRepr(v.elems[i])], ", ") \o ")"
      [] v.t = "Component" -> "Component()"

\* str(v), which is also what an f-string puts for {v}; an Assign formats
\* its value (Assign.__str__, fmt being "")
PyStr(v) ==
    CASE v.t = "str" -> v.s
      [] v.t = "Assign" -> IF v.value.t = "str" THEN v.value.s ELSE PyRepr(v.value)
      [] OTHER -> PyRepr(v)

\* [str(e) for e in es]
Strs(es) == [i \in DOMAIN es |-> PyStr(es[i])]

\* the positional arguments after the model are refs; description is the keyword.
\* add_connect from the test of the argument count on (lines 282-304)
add_connect_counted(m, refs, description, two, four) ==
    IF Len(refs) < 2 THEN Raises(m, "TypeError")
    ELSE IF Len(refs) \in two
    THEN Model_add(m, Connect(refs[1], refs[2], description), "equation")
    ELSE IF Len(refs) \in four
    THEN LET ref1 == refs[1]
             ref2 == refs[2]
             arg1 == refs[3]
             port2 == refs[4]
             name1 == IF ref1.t = "Component" THEN StrV(ref1.ident) ELSE ref1
             name2 == IF arg1.t = "Component" THEN StrV(arg1.ident) ELSE arg1
             s1 == StrV(PyStr(name1) \o "." \o PyStr(ref2))
             s2 == StrV(PyStr(name2) \o "." \o PyStr(port2))
         IN  Model_add(m, Connect(s1, s2, description), "equation")
    ELSE Raises(m, "ValueError")

\* add_connect taking any extra argument for a port: three references are
\* stored as if they were two, five as if they were four
add_connect_lenient(m, refs, description) ==
    add_connect_counted(m, refs, description, {2, 3}, {4, 5})

\* add_connect(model, ref1, ref2, *args, description=None)
add_connect(m, refs, description) ==
    add_connect_counted(m, refs, description, {2}, {4})

\* add_import(model, name, arg): arg absent, a list, or else a str
add_import(m, name, arg) ==
    CASE arg = NoneV -> Model_add(m, QualifiedImport(name), "public")
      [] arg.t = "list" -> Model_add(m, MultiImport(name, Strs(arg.elems)), "public")
      [] arg.t = "str" -> Model_add(m, NamedImport(arg.s, name), "public")
      [] OTHER -> Raises(m, "AssertionError")

\* add_text(model, *lines, indent=False, where="public")
add_text(m, lines, indent, where) == Model_add(m, Text(lines, indent), where)

\* the comment types add_comment knows
CommentTypes == {"//", "///", "/*", "/**", ""}

\* add_comment, lines 156-177: is_multi, start_prefix and prefix of a type
CommentPrefixes(type) ==
    CASE type = "//" -> [is_multi |-> FALSE, start_prefix |-> "// ", prefix |-> "// "]
      [] type = "///" -> [is_multi |-> FALSE, start_prefix |-> "/// ", prefix |-> "/// "]
      [] type = "/*" -> [is_multi |-> TRUE, start_prefix |-> "/* ", prefix |-> " * "]
      [] type = "/**" -> [is_multi |-> TRUE, start_prefix |-> "/** ", prefix |-> " * "]
      [] type = "" -> [is_multi |-> FALSE, start_prefix |-> "", prefix |-> ""]

\* add_comment, lines 181-191: the lines with their prefixes
CommentParts(lines, type) ==
    LET f == CommentPrefixes(type)
        n == Len(lines)
    IN  IF n = 1
        THEN <<f.start_prefix \o lines[1] \o (IF f.is_multi THEN " */" ELSE "")>>
        ELSE <<f.start_prefix \o lines[1]>>
             \o [i \in 1..(n - 2) |-> f.prefix \o lines[i + 1]]
             \o <<f.prefix \o lines[n] \o " */">>

\* add_comment(model, *lines, indent=False, type="//", where="public"):
\* unpacking `first, *rest, last` of no lines raises ValueError
add_comment(m, lines, indent, type, where) ==
    IF type \notin CommentTypes THEN Raises(m, "ValueError")
    ELSE IF Len(lines) = 0 THEN Raises(m, "ValueError")
    ELSE Model_add(m, Text(CommentParts(lines, type), indent), where)

-----------------------------------------------------------------------------
(* output.py: the PrettyPrinter.  A method is an operator from the printer *)
(* before the call to the printer after it.  Once exc is set the call has  *)
(* raised: every later step of it is skipped.                              *)

\* the line break, a piece of its own in every text
NL == "\n"

\* a string without line break as a text; the empty string is the empty text
Txt(s) == IF s = "" THEN <<>> ELSE <<s>>

\* len(text): the characters of its pieces
RECURSIVE TextLen(_)
TextLen(text) ==
    IF text = <<>> THEN 0 ELSE Len(Head(text)) + TextLen(Tail(text))

\* n * s
RECURSIVE Times(_, _)
Times(n, s) == IF n <= 0 THEN "" ELSE s \o Times(n - 1, s)

\* a printer that is kept from one pprint call to the next: it starts at
\* the indent the last render left
PrettyPrinter_reused(indentation, width, start_indent, draw_connections) ==
    [stream |-> <<>>,
     indentation |-> indentation,
     width |-> width,
     charcount |-> printer.charcount,
     curpos |-> printer.curpos,
     indent |-> start_indent + printer.indent,
     stdout |-> <<>>,
     log |-> <<>>,
     exc |-> NoExc]

\* PrettyPrinter.__init__ on an empty stream
PrettyPrinter(indentation, width, start_indent, draw_connections) ==
    [stream |-> <<>>,
     indentation |-> indentation,
     width |-> width,
     charcount |-> 0,
     curpos |-> 0,
     indent |-> start_indent,
     stdout |-> IF draw_connections
                THEN <<"WARNING: Does not support drawing connections yet", NL>>
                ELSE <<>>,
     log |-> <<>>,
     exc |-> NoExc]

\* raise e
raise(p, e) == IF p.exc # NoExc THEN p ELSE [p EXCEPT !.exc = e]

\* what a look at the printer sees after a call of write or print or a
\* change of indent: the statement that ran, how many pieces the stream
\* holds, the column position and the depth
Seen(p, by) ==
    [by |-> by, n |-> Len(p.stream), curpos |-> p.curpos, indent |-> p.indent]

\* log keeps what every such look sees, in the order of the statements
logged(p, by) == [p EXCEPT !.log = Append(@, Seen(p, by))]

\* self.indent += d
Nest(p, d) == IF p.exc # NoExc THEN p ELSE logged([p EXCEPT !.indent = @ + d], "indent")

\* PrettyPrinter._write, lines 74-77: the text goes to the stream and
\* charcount grows by the nchars written
written(p, text) ==
    [p EXCEPT !.stream = @ \o text, !.charcount = @ + TextLen(text)]

\* PrettyPrinter._write
_write(p, s, indent) ==
    IF p.exc # NoExc THEN p
    ELSE written(p, IF indent THEN Txt(Times(p.indent, p.indentation)) \o s ELSE s)

\* PrettyPrinter.print
print(p, s, indent) ==
    IF p.exc # NoExc THEN p
    ELSE logged([_write(p, s \o <<NL>>, indent) EXCEPT !.curpos = 0], "print")

\* PrettyPrinter.write, line 98: curpos grows by the nchars _write returned
moved(q, before) == [q EXCEPT !.curpos = @ + (q.charcount - before)]

\* PrettyPrinter.write
write(p, s, indent) ==
    IF p.exc # NoExc THEN p
    ELSE logged(moved(_write(p, s, indent), p.charcount), "write")

\* if cond: self.write(s)
write_if(p, cond, s) == IF cond THEN write(p, s, FALSE) ELSE p

\* if cond: raise e
raise_if(p, cond, e) == IF cond THEN raise(p, e) ELSE p

\* the words of an Assign's flags in the order write_key_value tests them
AssignFlagWords(flags) ==
    LET all == <<"Redeclare", "Each", "Final", "Replaceable">>
        word(f) == CASE f = "Redeclare" -> "redeclare"
                     [] f = "Each" -> "each"
                     [] f = "Final" -> "final"
                     [] f = "Replaceable" -> "replaceable"
        here == SelectSeq(all, LAMBDA f : f \in flags.set)
    IN  [i \in DOMAIN here |-> word(here[i])]

RECURSIVE write_key_value(_, _, _), write_annotation(_, _)
RECURSIVE write_key_value_rest(_, _), write_annotation_rest(_, _)
RECURSIVE write_key_value_rest_unbroken(_, _)
RECURSIVE write_annotation_head(_, _)

\* the loop over rest ending each entry with a comma and no line break
write_key_value_rest_unbroken(p, rest) ==
    IF rest = <<>> \/ p.exc # NoExc THEN p
    ELSE LET p1 == write(p, <<>>, TRUE)
             p2 == write_key_value(p1, Head(rest).key, Head(rest).val)
             p3 == write(p2, <<",">>, FALSE)
         IN  write_key_value_rest_unbroken(p3, Tail(rest))

\* write_key_value, lines 130-133: for k, v in rest
write_key_value_rest(p, rest) ==
    IF rest = <<>> \/ p.exc # NoExc THEN p
    ELSE LET p1 == write(p, <<>>, TRUE)
             p2 == write_key_value(p1, Head(rest).key, Head(rest).val)
             p3 == print(p2, <<",">>, FALSE)
         IN  write_key_value_rest(p3, Tail(rest))

\* write_key_value, lines 162-165: the Assign's init after the key, or the key
write_key_value_init(p, key, init) ==
    IF DictLen(init) > 0 THEN write_key_value(p, key, init)
    ELSE write(p, Txt(key), FALSE)

\* write_key_value, lines 173-175: the Assign's annotation, if it has entries
write_key_value_annotation(p, annotation) ==
    IF DictLen(annotation) > 0
    THEN write_annotation(write(p, <<" annotation">>, FALSE), annotation)
    ELSE p

\* write_key_value, lines 144-175: the value is an Assign
write_key_value_Assign(p, key, value) ==
    LET p1 == write_if(p, value.flags # NoneV,
                       IF value.flags = NoneV THEN <<>>
                       ELSE <<Join(AssignFlagWords(value.flags), " ") \o " ">>)
        p2 == write_if(p1, value.type # NoneV /\ value.type # StrV(""),
                       <<PyStr(value.type) \o " ">>)
        p3 == write_key_value_init(p2, key, value.init)
        p4 == write_if(p3, value.value # NoneV,
                       IF DictLen(value.init) > 0 THEN <<" = " \o PyStr(value)>>
                       ELSE <<"=" \o PyStr(value)>>)
        p5 == write_if(p4, value.description # NoneV,
                       <<" \"" \o PyStr(value.description) \o "\"">>)
    IN  write_key_value_annotation(p5, value.annotation)

\* three or more entries written without the indent going back at the end
write_key_value_lines_unbalanced(p, lst) ==
    LET p1 == Nest(p, 1)
        p2 == write(p1, <<"(", NL>>, FALSE)
        p3 == write(p2, <<>>, TRUE)
        p4 == write_key_value(p3, lst[1].key, lst[1].val)
        p5 == print(p4, <<",">>, FALSE)
        p6 == write_key_value_rest(p5, SubSeq(lst, 2, Len(lst) - 1))
        p7 == write(p6, <<>>, TRUE)
        p8 == write_key_value(p7, lst[Len(lst)].key, lst[Len(lst)].val)
    IN  write(p8, <<")">>, FALSE)

\* write_key_value, lines 121-143: three or more entries
write_key_value_lines(p, lst) ==
    LET p1 == Nest(p, 1)
        p2 == write(p1, <<"(", NL>>, FALSE)
        p3 == write(p2, <<>>, TRUE)
        p4 == write_key_value(p3, lst[1].key, lst[1].val)
        p5 == print(p4, <<",">>, FALSE)
        p6 == write_key_value_rest(p5, SubSeq(lst, 2, Len(lst) - 1))
        p7 == write(p6, <<>>, TRUE)
        p8 == write_key_value(p7, lst[Len(lst)].key, lst[Len(lst)].val)
        p9 == Nest(p8, -1)
    IN  write(p9, <<")">>, FALSE)

\* write_key_value, lines 106-143: the entries lst after the key is written
write_key_value_dict(p, lst) ==
    IF Len(lst) = 0 THEN p
    ELSE IF Len(lst) = 1
    THEN LET p1 == write(p, <<"(">>, FALSE)
             p2 == write_key_value(p1, lst[1].key, lst[1].val)
         IN  write(p2, <<")">>, FALSE)
    ELSE IF Len(lst) = 2
    THEN LET p1 == write(p, <<"(">>, FALSE)
             p2 == write_key_value(p1, lst[1].key, lst[1].val)
             p3 == write(p2, <<", ">>, FALSE)
             p4 == write_key_value(p3, lst[2].key, lst[2].val)
         IN  write(p4, <<")">>, FALSE)
    ELSE write_key_value_lines(p, lst)

\* PrettyPrinter.write_key_value(key, value)
write_key_value(p, key, value) ==
    IF p.exc # NoExc THEN p
    ELSE CASE value.t = "none" -> write(p, Txt(key), FALSE)
      [] value.t = "dict" -> write_key_value_dict(write(p, Txt(key), FALSE), value.items)
      [] value.t = "Assign" -> write_key_value_Assign(p, key, value)
      [] value.t = "bool" ->
            write(p, IF value.b THEN <<key \o "=true">> ELSE <<key \o "=false">>, FALSE)
      [] value.t = "int" -> write(p, <<key \o "=" \o PyStr(value)>>, FALSE)
      [] value.t = "tuple" ->
            write(p, <<key \o "={" \o Join(Strs(value.elems), ", ") \o "}">>, FALSE)
      [] value.t = "str" -> write(p, <<key \o "=" \o value.s>>, FALSE)
      [] OTHER -> raise(p, "AssertionError")

\* write_annotation, lines 236-239: for k, v in rest
write_annotation_rest(p, rest) ==
    IF rest = <<>> \/ p.exc # NoExc THEN p
    ELSE LET p1 == write(p, Txt(Head(rest).key), TRUE)
             p2 == write_annotation(p1, Head(rest).val)
             p3 == print(p2, <<",">>, FALSE)
         IN  write_annotation_rest(p3, Tail(rest))

\* write_annotation, lines 257-262: for e in head, each a dict of one entry
write_annotation_head(p, head) ==
    IF head = <<>> \/ p.exc # NoExc THEN p
    ELSE LET e == Head(head)
         IN  IF e.t \notin {"dict", "list", "tuple"} THEN raise(p, "TypeError")
             ELSE IF e.t # "dict"
             THEN raise(p, IF Len(e.elems) = 1 THEN "AttributeError" ELSE "AssertionError")
             ELSE IF DictLen(e) # 1 THEN raise(p, "AssertionError")
             ELSE LET p1 == write(p, Txt(e.items[1].key), TRUE)
                      p2 == write_annotation(p1, e.items[1].val)
                      p3 == print(p2, <<",">>, TRUE)
                  IN  write_annotation_head(p3, Tail(head))

\* what a for loop over e goes through: the elements, of a dict the keys
Iterable(e) == e.t \in {"list", "tuple", "dict"}
Iterated(e) ==
    IF e.t = "dict" THEN [i \in DOMAIN e.items |-> StrV(e.items[i].key)] ELSE e.elems

\* "{" + ",".join(str(x) for x in e) + "}" of an element of a list of lists
Braced(e) == "{" \o Join(Strs(Iterated(e)), ",") \o "}"

\* write_annotation, lines 275-278: for e in head
RECURSIVE write_annotation_lists(_, _)
write_annotation_lists(p, head) ==
    IF head = <<>> \/ p.exc # NoExc THEN p
    ELSE IF ~Iterable(Head(head)) THEN raise(p, "TypeError")
    ELSE LET p1 == write(p, <<Braced(Head(head))>>, FALSE)
             p2 == write(p1, <<",">>, FALSE)
         IN  write_annotation_lists(p2, Tail(head))

\* write_annotation, lines 226-245: two or more entries
write_annotation_lines(p, lst) ==
    LET p1 == write(p, <<"(">>, FALSE)
        p2 == Nest(p1, 1)
        p3 == write(p2, Txt(lst[1].key), FALSE)
        p4 == write_annotation(p3, lst[1].val)
        p5 == print(p4, <<",">>, FALSE)
        p6 == write_annotation_rest(p5, SubSeq(lst, 2, Len(lst) - 1))
        p7 == write(p6, Txt(lst[Len(lst)].key), TRUE)
        p8 == write_annotation(p7, lst[Len(lst)].val)
        p9 == Nest(p8, -1)
    IN  write(p9, <<")">>, FALSE)

\* write_annotation, lines 264-271: the last element of a list of dicts
write_annotation_last_dict(p, last) ==
    IF last.t # "dict" THEN raise(p, "AssertionError")
    ELSE IF DictLen(last) = 0 THEN raise(p, "IndexError")
    ELSE LET p4 == write(p, Txt(last.items[1].key), TRUE)
             p5 == write_annotation(p4, last.items[1].val)
             p6 == Nest(p5, -1)
             p7 == print(p6, <<>>, FALSE)
         IN  write(p7, <<"}">>, TRUE)

\* write_annotation, lines 279-282: the last element of a list of lists
write_annotation_last_list(p, last) ==
    IF ~Iterable(last) THEN raise(p, "TypeError")
    ELSE write(write(p, <<Braced(last)>>, FALSE), <<"}">>, FALSE)

\* write_annotation, lines 247-286: a list or tuple of n > 0 elements
write_annotation_elems(p, es) ==
    IF es[1].t = "dict"
    THEN LET p1 == print(p, <<"={">>, TRUE)
             p2 == Nest(p1, 1)
             p3 == write_annotation_head(p2, SubSeq(es, 1, Len(es) - 1))
         IN  write_annotation_last_dict(p3, es[Len(es)])
    ELSE IF es[1].t \in {"list", "tuple"}
    THEN LET p1 == write(p, <<"={">>, FALSE)
             p2 == write_annotation_lists(p1, SubSeq(es, 1, Len(es) - 1))
         IN  write_annotation_last_list(p2, es[Len(es)])
    ELSE write(p, <<"={" \o Join(Strs(es), ",") \o "}">>, FALSE)

\* PrettyPrinter.write_annotation(anno)
write_annotation(p, anno) ==
    IF p.exc # NoExc THEN p
    ELSE CASE anno.t = "dict" ->
            IF DictLen(anno) = 0 THEN p
            ELSE IF DictLen(anno) = 1
            THEN LET p1 == write(p, <<"(">>, FALSE)
                     p2 == write(p1, Txt(anno.items[1].key), FALSE)
                     p3 == write_annotation(p2, anno.items[1].val)
                 IN  write(p3, <<")">>, FALSE)
            ELSE write_annotation_lines(p, anno.items)
      [] anno.t \in {"list", "tuple"} ->
            IF Len(anno.elems) = 0 THEN write(p, <<"={}">>, FALSE)
            ELSE write_annotation_elems(p, anno.elems)
      [] anno.t = "bool" ->
            write(p, IF anno.b THEN <<"=true">> ELSE <<"=false">>, FALSE)
      [] OTHER -> write(p, <<"=" \o PyStr(anno)>>, FALSE)

\* PrettyPrinter.visit_Annotation(node)
visit_Annotation(p, node) ==
    write_annotation(write(p, <<"annotation ">>, FALSE), node)

\* if annotation: self.write(" "); self.visit_Annotation(annotation)
visit_Annotation_if(p, cond, annotation) ==
    IF cond THEN visit_Annotation(write(p, <<" ">>, FALSE), annotation) ELSE p

\* flag words in the reverse of the order the visit function tests them
FlagWords_reversed(flags, order) ==
    IF flags = NoneV THEN <<>>
    ELSE LET here == SelectSeq(order, LAMBDA f : f \in flags.set)
         IN  [i \in DOMAIN here |-> here[Len(here) + 1 - i]]

\* the flag words of a node in the order the visit function tests them
FlagWords(flags, order) ==
    IF flags = NoneV THEN <<>>
    ELSE SelectSeq(order, LAMBDA f : f \in flags.set)

RECURSIVE write_words(_, _)
\* one write per flag present
write_words(p, words) ==
    IF words = <<>> THEN p
    ELSE write_words(write(p, <<Head(words) \o " ">>, FALSE), Tail(words))

Lower(f) ==
    CASE f = "Final" -> "final"
      [] f = "Inner" -> "inner"
      [] f = "Outer" -> "outer"
      [] f = "Encapsulated" -> "encapsulated"
      [] f = "Partial" -> "partial"
      [] f = "Replaceable" -> "replaceable"

\* the words written for the flags present, in the order tested
LowerWords(flags, order) ==
    [i \in DOMAIN FlagWords(flags, order) |-> Lower(FlagWords(flags, order)[i])]

\* visit_Component, lines 324-326: if node.init
visit_Component_init(p, init) ==
    IF DictLen(init) > 0 THEN write_key_value(p, "", init) ELSE p

\* visit_Component, lines 328-334: if node.value is not None
visit_Component_value(p, node) ==
    IF node.value = NoneV THEN p
    ELSE write(write(p, IF DictLen(node.init) > 0 THEN <<" = ">> ELSE <<"=">>, FALSE),
               Txt(PyStr(node.value)), FALSE)

\* PrettyPrinter.visit_Component(node)
visit_Component(p, node) ==
    LET p1 == write(p, <<>>, TRUE)
        p2 == write_words(p1, LowerWords(node.flags, <<"Final", "Inner", "Outer">>))
        p3 == write_if(p2, node.flux # NoneV, <<PyStr(node.flux) \o " ">>)
        p4 == write_if(p3, node.variability # NoneV, <<PyStr(node.variability) \o " ">>)
        p5 == write_if(p4, node.causality # NoneV, <<PyStr(node.causality) \o " ">>)
        p6 == write(p5, Txt(node.type), FALSE)
        p7 == write_if(p6, Len(node.subscripts.elems) > 0,
                       <<"[" \o Join(Strs(node.subscripts.elems), ",") \o "]">>)
        p8 == write(p7, <<" " \o node.ident>>, FALSE)
        p9 == visit_Component_init(p8, node.init)
        p10 == visit_Component_value(p9, node)
        p11 == write_if(p10, node.condition # NoneV, <<" if " \o PyStr(node.condition)>>)
        p12 == raise_if(p11, node.constraint # NoneV, "NotImplementedError")
        p13 == write_if(p12, node.description # NoneV,
                        <<" \"" \o PyStr(node.description) \o "\"">>)
        p14 == visit_Annotation_if(p13, DictLen(node.annotation) > 0, node.annotation)
    IN  print(p14, <<";">>, FALSE)

\* PrettyPrinter.visit_Description(node)
visit_Description(p, node) == write(p, <<" \"" \o PyStr(node) \o "\"">>, FALSE)

\* if description is not None: self.visit_Description(description)
visit_Description_if(p, description) ==
    IF description # NoneV THEN visit_Description(p, description) ELSE p

\* PrettyPrinter.visit_Connect(node)
visit_Connect(p, node) ==
    LET p1 == write(p, <<"connect(" \o PyStr(node.ref1) \o ", " \o PyStr(node.ref2) \o ")">>,
                    TRUE)
        p2 == visit_Description_if(p1, node.description)
        p3 == visit_Annotation_if(p2, DictLen(node.annotation) > 0, node.annotation)
    IN  print(p3, <<";">>, FALSE)

\* PrettyPrinter.visit_Equation(node)
visit_Equation(p, node) ==
    LET p1 == write(p, <<node.left \o " = " \o node.right>>, TRUE)
        p2 == write_if(p1, node.description # NoneV,
                       <<" \"" \o PyStr(node.description) \o "\"">>)
        p3 == visit_Annotation_if(p2, DictLen(node.annotation) > 0, node.annotation)
    IN  print(p3, <<";">>, FALSE)

\* PrettyPrinter.visit_Algorithm(node)
visit_Algorithm(p, node) ==
    LET p1 == write(p, <<node.left \o " := " \o node.right>>, TRUE)
        p2 == write_if(p1, node.description # NoneV,
                       <<" \"" \o PyStr(node.description) \o "\"">>)
        p3 == visit_Annotation_if(p2, node.annotation # NoneV, node.annotation)
    IN  print(p3, <<";">>, FALSE)

\* PrettyPrinter.visit_Assign(node): print(node) goes to sys.stdout, not to the stream
visit_Assign(p, node) ==
    IF p.exc # NoExc THEN p
    ELSE [p EXCEPT !.stdout = @ \o Txt(PyStr(node)) \o <<NL>>]

visit_Extends(p, node) == print(p, <<"extends " \o node.name \o ";">>, TRUE)

visit_Expression(p, node) == write(p, Txt(node.value), FALSE)

visit_MultiImport(p, node) ==
    print(p, <<"import " \o node.path \o ".{" \o Join(node.names, ", ") \o "};">>, TRUE)

visit_NamedImport(p, node) ==
    print(p, <<"import " \o node.short \o " = " \o node.long \o ";">>, TRUE)

visit_QualifiedImport(p, node) == print(p, <<"import " \o node.name \o ";">>, TRUE)

visit_str(p, node) == write(p, Txt(node.s), FALSE)

\* PrettyPrinter.visit_Text(node): for e in node
RECURSIVE visit_Text_lines(_, _, _)
visit_Text_lines(p, lines, indent) ==
    IF lines = <<>> THEN p
    ELSE visit_Text_lines(print(p, Txt(Head(lines)), indent), Tail(lines), indent)

visit_Text(p, node) == visit_Text_lines(p, node.lines, node.indent)

visit_Within(p, node) ==
    print(p, IF node.name = NoneV THEN <<"within;">>
             ELSE <<"within " \o PyStr(node.name) \o ";">>, TRUE)

\* Visitor.visit_default(node)
visit_default(p, node) == raise(p, "ValueError")

RECURSIVE visit(_, _), visit_each(_, _), visit_IfEquation_body(_, _)
RECURSIVE visit_IfEquation_elseif(_, _)
RECURSIVE visit_each_backwards(_, _)

\* a loop over the nodes that visits the last one first
visit_each_backwards(p, nodes) ==
    IF nodes = <<>> \/ p.exc # NoExc THEN p
    ELSE visit(visit_each_backwards(p, Tail(nodes)), Head(nodes))

\* for e in nodes: self.visit(e)
visit_each(p, nodes) ==
    IF nodes = <<>> \/ p.exc # NoExc THEN p
    ELSE visit_each(visit(p, Head(nodes)), Tail(nodes))

\* visit_IfEquation, lines 387-390 and 398-401: for eq in body
visit_IfEquation_body(p, body) ==
    IF body = <<>> \/ p.exc # NoExc THEN p
    ELSE LET p1 == write(p, <<>>, TRUE)
             p2 == visit(p1, Head(body))
             p3 == print(p2, <<";">>, FALSE)
         IN  visit_IfEquation_body(p3, Tail(body))

\* visit_IfEquation, lines 392-402: for expr, eqs in node.elseif
visit_IfEquation_elseif(p, branches) ==
    IF branches = <<>> \/ p.exc # NoExc THEN p
    ELSE LET p1 == write(p, <<"elseif ">>, TRUE)
             p2 == write(p1, <<>>, TRUE)
             p3 == visit(p2, Head(branches).test)
             p4 == write(p3, <<" then">>, FALSE)
             p5 == Nest(p4, 1)
             p6 == visit_IfEquation_body(p5, Head(branches).body)
             p7 == Nest(p6, -1)
         IN  visit_IfEquation_elseif(p7, Tail(branches))

\* visit_IfEquation, lines 403-405: if node.orelse is not None
visit_IfEquation_orelse(p, branch) ==
    IF branch # NoneV THEN visit(print(p, <<"else">>, TRUE), branch) ELSE p

\* PrettyPrinter.visit_IfEquation(node)
visit_IfEquation(p, node) ==
    LET p1 == write(p, <<"if ">>, TRUE)
        p2 == visit(p1, node.test)
        p3 == print(p2, <<" then">>, FALSE)
        p4 == Nest(p3, 1)
        p5 == visit_IfEquation_body(p4, node.body)
        p6 == Nest(p5, -1)
        p7 == visit_IfEquation_elseif(p6, node.elseif)
        p8 == visit_IfEquation_orelse(p7, node.orelse)
    IN  print(p8, <<"end if;">>, TRUE)

\* a section that writes its keyword line whether it has nodes or not
visit_Model_section_always(p, keyword, nodes) ==
    LET p1 == Nest(p, -1)
        p2 == print(p1, <<keyword>>, TRUE)
        p3 == Nest(p2, 1)
    IN  visit_each(p3, nodes)

\* visit_Model, lines 431-462: a section with its keyword line, if it has nodes
visit_Model_section(p, keyword, nodes) ==
    IF Len(nodes) > 0
    THEN LET p1 == Nest(p, -1)
             p2 == print(p1, <<keyword>>, TRUE)
             p3 == Nest(p2, 1)
         IN  visit_each(p3, nodes)
    ELSE p

\* visit_Model, lines 409-410: if node.within is not None
visit_Model_within(p, within) ==
    IF within # NoneV THEN visit_Within(p, within) ELSE p

\* visit_Model, lines 464-466: if node.annotation
visit_Model_annotation(p, annotation) ==
    IF DictLen(annotation) > 0
    THEN print(visit_Annotation(p, annotation), <<";">>, FALSE)
    ELSE p

\* PrettyPrinter.visit_Model(node)
visit_Model(p, node) ==
    LET p1 == visit_Model_within(p, node.within)
        p2 == write_words(p1, LowerWords(node.flags,
                            <<"Final", "Encapsulated", "Partial", "Replaceable">>))
        p3 == print(p2, IF node.description # NoneV
                        THEN <<"model " \o node.ident \o " \""
                               \o PyStr(node.description) \o "\"">>
                        ELSE <<"model " \o node.ident>>, TRUE)
        p4 == Nest(p3, 1)
        p5 == visit_each(p4, node.public_section)
        p6 == visit_Model_section(p5, "protected", node.protected_section)
        p7 == visit_Model_section(p6, "initial equation", node.initial_equations)
        p8 == visit_Model_section(p7, "initial algorithm", node.initial_algorithms)
        p9 == visit_Model_section(p8, "equation", node.equations)
        p10 == visit_Model_section(p9, "algorithm", node.algorithms)
        p11 == visit_Model_annotation(p10, node.annotation)
        p12 == Nest(p11, -1)
    IN  print(p12, <<"end " \o node.ident \o ";">>, TRUE)

\* the types PrettyPrinter has a visit_<type> method for
Visited ==
    {"Algorithm", "Assign", "Component", "Connect", "Equation", "Extends",
     "Expression", "IfEquation", "Model", "MultiImport", "NamedImport",
     "QualifiedImport", "str", "Text", "Within"}

\* Visitor.visit(node): getattr(self, "visit_" + type name), else visit_default
visit(p, node) ==
    IF p.exc # NoExc THEN p
    ELSE CASE node.t = "Algorithm" -> visit_Algorithm(p, node)
      [] node.t = "Assign" -> visit_Assign(p, node)
      [] node.t = "Component" -> visit_Component(p, node)
      [] node.t = "Connect" -> visit_Connect(p, node)
      [] node.t = "Equation" -> visit_Equation(p, node)
      [] node.t = "Extends" -> visit_Extends(p, node)
      [] node.t = "Expression" -> visit_Expression(p, node)
      [] node.t = "IfEquation" -> visit_IfEquation(p, node)
      [] node.t = "Model" -> visit_Model(p, node)
      [] node.t = "MultiImport" -> visit_MultiImport(p, node)
      [] node.t = "NamedImport" -> visit_NamedImport(p, node)
      [] node.t = "QualifiedImport" -> visit_QualifiedImport(p, node)
      [] node.t = "str" -> visit_str(p, node)
      [] node.t = "Text" -> visit_Text(p, node)
      [] node.t = "Within" -> visit_Within(p, node)
      [] OTHER -> visit_default(p, node)

\* get_component_origin(c)
get_component_origin(c) ==
    IF "Placement" \notin Keys(c.annotation) THEN NoneV
    ELSE LET placement == DictGet(c.annotation, "Placement")
         IN  IF "transformation" \notin Keys(placement) THEN NoneV
             ELSE KwGet(DictGet(placement, "transformation"), "origin")

\* ref.rsplit(".", 1)[0] of the references the calls store; a reference
\* without a dot is its own first part
rsplit_first(ref) ==
    CASE ref = "x.p" -> "x"
      [] ref = "x.q" -> "x"
      [] ref = "y.q" -> "y"
      [] ref = "z.q" -> "z"
      [] OTHER -> ref

\* whether idents.get(parts[0]) is a component with an origin
HasOrigin(ref, idents) ==
    /\ rsplit_first(ref.s) \in DOMAIN idents
    /\ get_component_origin(idents[rsplit_first(ref.s)]) # NoneV

\* draw_connect(c, idents): the Connect it leaves, or the exception of
\* rsplit on a reference that is no str
draw_connect(c, idents) ==
    IF c.ref1.t # "str" THEN [node |-> c, exc |-> "AttributeError"]
    ELSE IF ~HasOrigin(c.ref1, idents) THEN [node |-> c, exc |-> NoExc]
    ELSE IF c.ref2.t # "str" THEN [node |-> c, exc |-> "AttributeError"]
    ELSE IF ~HasOrigin(c.ref2, idents) THEN [node |-> c, exc |-> NoExc]
    ELSE LET anno == setdefault(c.annotation, "Line", EmptyDict)
             line0 == DictGet(anno, "Line")
             line1 == DictSet(line0, "points",
                        TupleV(<<TupleV(<<IntV(0), IntV(0)>>),
                                 TupleV(<<IntV(10), IntV(10)>>)>>))
             line2 == DictSet(line1, "color", TupleV(<<IntV(0), IntV(0), IntV(255)>>))
         IN  [node |-> [c EXCEPT !.annotation = DictSet(anno, "Line", line2)],
              exc |-> NoExc]

\* draw_connections, lines 534-540: the last component of each identifier,
\* the public section before the protected one
ComponentsByIdent(m) ==
    LET d == SelectSeq(Declarations(m), LAMBDA e : e.t = "Component")
        last(i) == CHOOSE k \in DOMAIN d :
                      /\ d[k].ident = i
                      /\ \A j \in DOMAIN d : d[j].ident = i => j <= k
    IN  [i \in {d[k].ident : k \in DOMAIN d} |-> d[last(i)]]

\* draw_connections, lines 542-544, from equation i on
RECURSIVE draw_connections_from(_, _, _)
draw_connections_from(m, i, idents) ==
    IF i > Len(m.equations) THEN Returns(m)
    ELSE IF m.equations[i].t # "Connect" THEN draw_connections_from(m, i + 1, idents)
    ELSE LET r == draw_connect(m.equations[i], idents)
             m1 == [m EXCEPT !.equations[i] = r.node]
         IN  IF r.exc # NoExc THEN Raises(m1, r.exc)
             ELSE draw_connections_from(m1, i + 1, idents)

\* draw_connections(m)
draw_connections(m) == draw_connections_from(m, 1, ComponentsByIdent(m))

\* the pieces i..j of a text, one after the other
RECURSIVE Pieces(_, _, _)
Pieces(text, i, j) ==
    IF i > j THEN ""
    ELSE IF i = j THEN text[i]
    ELSE Pieces(text, i, (i + j) \div 2) \o Pieces(text, (i + j) \div 2 + 1, j)

\* stream.getvalue(): the pieces written, one after the other
Joined(text) == Pieces(text, 1, Len(text))

\* pprint's default width
DefaultWidth == 80

\* a pprint that draws the connections of its argument when asked to
pprint_tree_drawn(o, opts) ==
    IF opts.draw_connections /\ o.t = "Model" THEN draw_connections(o).model ELSE o

\* what pprint(o, ...) leaves of o: it hands draw_connections to the
\* printer and never calls the function of that name
pprint_tree(o, opts) == o

\* pprint, lines 565-568 and 577-578: what the call ends with once the
\* printer p has visited o.  The caller's stream holds every piece written,
\* the return value exists only if no visit raised.
pprint_outcome(o, opts, p) ==
    [o |-> pprint_tree(o, opts),
     exc |-> p.exc,
     ret |-> IF opts.stream = NoneV /\ p.exc = NoExc
             THEN StrV(Joined(p.stream)) ELSE NoneV,
     stream |-> IF opts.stream = NoneV THEN <<>> ELSE p.stream,
     stdout |-> p.stdout,
     printer |-> [indent |-> p.indent, curpos |-> p.curpos,
                  charcount |-> p.charcount]]

\* pprint(o, stream, draw_connections=, indentation=, width=, start_indent=):
\* opts.stream is None or the caller's stream, empty before the call
pprint(o, opts) ==
    pprint_outcome(o, opts,
        visit(PrettyPrinter(opts.indentation, opts.width, opts.start_indent,
                            opts.draw_connections), o))

\* the characters str.strip() removes from both ends of a line
Whitespace == {" ", "\t", "\n", "\r"}

\* line.lstrip(), a line being the sequence of its characters
RECURSIVE lstrip(_)
lstrip(line) ==
    IF line # <<>> /\ Head(line) \in Whitespace THEN lstrip(Tail(line)) ELSE line

\* line.rstrip()
RECURSIVE rstrip(_)
rstrip(line) ==
    IF line # <<>> /\ line[Len(line)] \in Whitespace
    THEN rstrip(SubSeq(line, 1, Len(line) - 1))
    ELSE line

\* line.strip(): the line break at the end of a line read from a file goes
\* with every other whitespace at either end
strip(line) == rstrip(lstrip(line))

\* the characters of an identifier; the identifiers saved have one
Chars(ident) == <<ident>>

\* a folder: whether it is a directory, the lines of its package.order
\* (None if there is no such file) and the text of its other files by name
Folder(is_dir, order, files) ==
    [t |-> "Path", is_dir |-> is_dir, order |-> order, files |-> files]

\* save, lines 596-601: the lines read and stripped, the identifier after
\* them unless it is one of them, written back one per line
save_order(lines, ident) ==
    LET elements == [i \in DOMAIN lines |-> strip(lines[i])]
    IN  IF \E i \in DOMAIN elements : elements[i] = Chars(ident)
        THEN elements
        ELSE Append(elements, Chars(ident))

\* save, lines 591-593: open(fn, "w") and pprint into it; the file keeps
\* what was written when the render raises
save_file(model_, folder, draw) ==
    LET out == pprint(model_, [stream |-> [t |-> "TextIO"], draw_connections |-> draw,
                               indentation |-> "  ", width |-> DefaultWidth,
                               start_indent |-> 0])
    IN  [folder |-> [folder EXCEPT !.files = (model_.ident :> out.stream) @@ @],
         exc |-> out.exc,
         stdout |-> out.stdout]

\* save, lines 595-601: package.order is read and written back when the
\* render has not raised
save_written(model_, out) ==
    IF out.exc # NoExc THEN out
    ELSE [out EXCEPT !.folder.order = ListV(save_order(@.elems, model_.ident))]

\* save(model, folder, draw_connections)
save(model_, folder, draw) ==
    IF ~folder.is_dir \/ folder.order = NoneV
    THEN [folder |-> folder, exc |-> "AssertionError", stdout |-> <<>>]
    ELSE save_written(model_, save_file(model_, folder, draw))

-----------------------------------------------------------------------------
(* The calls a client makes *)

Idents == {"x", "y"}

Sections ==
    {"public", "protected", "initial equation", "initial algorithm",
     "equation", "algorithm"}

\* the where arguments tried: the six section names and one that is none of them
Wheres == Sections \cup {"nowhere"}

\* value, init, flags and **kwargs of the add_component calls tried
ComponentOptions ==
    { [value |-> NoneV, init |-> NoneV, flags |-> NoneV, kwargs |-> EmptyDict],
      [value |-> IntV(1), init |-> DictV(<<Item("min", IntV(0))>>),
       flags |-> StrV("inner final"),
       kwargs |-> DictV(<<Item("pos", TupleV(<<IntV(0), IntV(0)>>))>>)],
      [value |-> NoneV, init |-> NoneV, flags |-> StrV("bogus"), kwargs |-> EmptyDict],
      [value |-> NoneV, init |-> NoneV, flags |-> NoneV,
       kwargs |-> DictV(<<Item("rotation", IntV(90))>>)] }

ComponentArgs ==
    { [typ |-> "Real", ident |-> i, value |-> o.value, init |-> o.init,
       protected |-> p, parameter |-> FALSE, flags |-> o.flags, kwargs |-> o.kwargs] :
      i \in Idents, p \in BOOLEAN, o \in ComponentOptions }

\* the nodes handed to Model.add directly
AddNodes ==
    { Component("X", "x", NoneV, NoneV, EmptyDict),
      Equation("a", "b") }

\* the positional arguments of the add_connect calls tried
ConnectRefs ==
    { <<StrV("x.p")>>,
      <<StrV("x.p"), StrV("y.q")>>,
      <<StrV("x"), StrV("p"), StrV("y.q")>>,
      <<StrV("x"), StrV("p"), StrV("z"), StrV("q")>>,
      <<Component("X", "x", NoneV, NoneV, EmptyDict), StrV("p"),
        Component("Y", "y", NoneV, NoneV, EmptyDict), StrV("q")>>,
      <<StrV("x"), StrV("p"), StrV("y"), StrV("q"), StrV("r")>> }

NoPrinter == [indent |-> 0, curpos |-> 0, charcount |-> 0]
NoMemo == [t |-> "none"]

Init ==
    /\ model = Model("Unnamed")
    /\ call = [op |-> "Model"]
    /\ exc = NoExc
    /\ ret = NoneV
    /\ stream = <<>>
    /\ stdout = <<>>
    /\ printer = NoPrinter
    /\ memo = NoMemo
    /\ input = NoneV

\* a builder call ended: its outcome replaces the model, and what the last
\* pprint left behind is forgotten
Built(out) ==
    /\ model' = out.model
    /\ exc' = out.exc
    /\ ret' = NoneV
    /\ stream' = <<>>
    /\ stdout' = <<>>
    /\ printer' = NoPrinter
    /\ memo' = NoMemo
    /\ UNCHANGED input

AddComponent ==
    \E a \in ComponentArgs :
        /\ NodeCount(model) < MaxNodes
        /\ call' = [op |-> "add_component", ident |-> a.ident, protected |-> a.protected]
        /\ Built(add_component(model, a))

AddParameter ==
    \E a \in ComponentArgs :
        /\ NodeCount(model) < MaxNodes
        /\ call' = [op |-> "add_parameter", ident |-> a.ident, protected |-> a.protected]
        /\ Built(add_parameter(model, a))

ModelAdd ==
    \E some \in AddNodes, where \in Wheres :
        /\ NodeCount(model) < MaxNodes
        /\ call' = [op |-> "Model.add", some |-> some, where |-> where]
        /\ Built(Model_add(model, some, where))

AddConnect ==
    \E refs \in ConnectRefs, description \in {NoneV, StrV("wire")} :
        /\ NodeCount(model) < MaxNodes
        /\ call' = [op |-> "add_connect", refs |-> refs, description |-> description]
        /\ Built(add_connect(model, refs, description))

Next ==
    \/ AddComponent
    \/ AddParameter
    \/ ModelAdd
    \/ AddConnect

Spec == Init /\ [][Next]_vars

-----------------------------------------------------------------------------
(* Adding nodes, texts and comments to a section chosen by name *)

\* the lines and the type of the add_comment calls tried
CommentLines == {<<>>, <<"a">>, <<"a", "b", "c">>}
CommentTypesTried == {"/*", "#"}

AddText ==
    \E where \in Wheres :
        /\ NodeCount(model) < MaxNodes
        /\ call' = [op |-> "add_text", lines |-> <<"a">>, where |-> where]
        /\ Built(add_text(model, <<"a">>, FALSE, where))

AddComment ==
    \E lines \in CommentLines, type \in CommentTypesTried, where \in Wheres :
        /\ NodeCount(model) < MaxNodes
        /\ call' = [op |-> "add_comment", lines |-> lines, type |-> type,
                    where |-> where]
        /\ Built(add_comment(model, lines, FALSE, type, where))

NextAdd ==
    \/ ModelAdd
    \/ AddText
    \/ AddComment

SpecAdd == Init /\ [][NextAdd]_vars

-----------------------------------------------------------------------------
(* Adding comments of every type to a Model *)

MaxCommentLines == 3

\* the lines passed: one to MaxCommentLines lines, each "a" or "b"
CommentLinesTried ==
    UNION {[1..n -> {"a", "b"}] : n \in 1..MaxCommentLines}

\* add_comment(model, *lines, type=type)
Comment ==
    \E lines \in CommentLinesTried, type \in CommentTypes :
        /\ NodeCount(model) < MaxNodes
        /\ call' = [op |-> "add_comment", lines |-> lines, type |-> type,
                    where |-> "public"]
        /\ Built(add_comment(model, lines, FALSE, type, "public"))

NextComment == Comment

SpecComment == Init /\ [][NextComment]_vars

-----------------------------------------------------------------------------
(* Building a Model node by node, drawing its connections and rendering it *)

\* the nodes handed to Model.add before a render, each with its section
PrintAdds ==
    LET E == Expression("u > 0")
        eq == Equation("a", "b")
        placed == set_placement(Component("X", "x", NoneV, NoneV, EmptyDict),
                                DictV(<<Item("pos", TupleV(<<IntV(0), IntV(0)>>))>>))
    IN  { [some |-> Component("X", "x", NoneV, NoneV, EmptyDict), where |-> "public"],
          [some |-> placed, where |-> "protected"],
          [some |-> Assign(IntV(1), NoneV, NoneV, NoneV, NoneV, NoneV), where |-> "public"],
          [some |-> Text(<<"// note">>, TRUE), where |-> "public"],
          [some |-> eq, where |-> "equation"],
          [some |-> Connect(StrV("x.p"), StrV("x.q"), NoneV), where |-> "equation"],
          [some |-> IfEquationElseif_end(E, <<eq>>, <<Branch(E, <<eq>>)>>),
           where |-> "equation"],
          [some |-> IfEquationOrelse_end(E, <<eq>>, <<Branch(E, <<eq>>)>>, <<eq>>),
           where |-> "equation"],
          [some |-> WhenEquationBody_end(E, <<eq>>), where |-> "equation"],
          [some |-> Statement("s"), where |-> "algorithm"] }

\* name and arg of the add_import calls tried: arg absent (a plain and a
\* wildcard path), a str, a list of two names and of none, a tuple of names
ImportArgs ==
    { [name |-> "A.B.C", arg |-> NoneV],
      [name |-> "A.B.*", arg |-> NoneV],
      [name |-> "A.B", arg |-> StrV("MyC")],
      [name |-> "A.B", arg |-> ListV(<<StrV("C"), StrV("CC")>>)],
      [name |-> "A.B", arg |-> ListV(<<>>)],
      [name |-> "A.B", arg |-> TupleV(<<StrV("C"), StrV("CC")>>)] }

\* the stream argument: None, or a stream of the caller that is still empty
CallerStream == [t |-> "TextIO"]

\* the options of the pprint calls tried
PrintOptions ==
    { [stream |-> st, draw_connections |-> dc, indentation |-> "  ",
       width |-> DefaultWidth, start_indent |-> IF dc THEN 1 ELSE 0] :
      st \in {NoneV, CallerStream}, dc \in BOOLEAN }

\* what a pprint call ended with
Render(opts, e, r, st) == [t |-> "render", opts |-> opts, exc |-> e, ret |-> r, stream |-> st]

\* a pprint call ended: memo keeps what the call before it gave, if that
\* was a pprint too (nothing has touched the tree in between)
Printed(opts, out) ==
    /\ model' = IF model.t = "Model" THEN pprint_tree(model, opts) ELSE model
    /\ exc' = out.exc
    /\ ret' = out.ret
    /\ stream' = out.stream
    /\ stdout' = out.stdout
    /\ printer' = out.printer
    /\ memo' = IF call.op = "pprint" THEN Render(call.opts, exc, ret, stream) ELSE NoMemo
    /\ UNCHANGED input

AddImport ==
    \E a \in ImportArgs :
        /\ NodeCount(model) < MaxNodes
        /\ call' = [op |-> "add_import", name |-> a.name, arg |-> a.arg]
        /\ Built(add_import(model, a.name, a.arg))

AddNode ==
    \E a \in PrintAdds :
        /\ NodeCount(model) < MaxNodes
        /\ call' = [op |-> "Model.add", some |-> a.some, where |-> a.where]
        /\ Built(Model_add(model, a.some, a.where))

DrawConnections ==
    /\ call' = [op |-> "draw_connections"]
    /\ Built(draw_connections(model))

Pprint ==
    \E opts \in PrintOptions :
        /\ call' = [op |-> "pprint", opts |-> opts]
        /\ Printed(opts, pprint(model, opts))

NextPrint ==
    \/ AddNode
    \/ AddImport
    \/ DrawConnections
    \/ Pprint

SpecPrint == Init /\ [][NextPrint]_vars

-----------------------------------------------------------------------------
(* Rendering one Component whose modification map or annotation is a       *)
(* value map drawn at the start                                            *)

MaxEntries == 3

\* the keys of a drawn map, by position
KeyNames == <<"a", "b", "c", "d", "e", "f">>

\* the map of the first n keys to the given values
MapOf(vals) == DictV([i \in DOMAIN vals |-> Item(KeyNames[i], vals[i])])

\* a map of n numbers
Numbers(n) == MapOf([i \in 1..n |-> IntV(i)])

\* the values of a drawn map: a number, a string, a map of one, of two and
\* of MaxEntries numbers, and a map that nests a long and an empty map
EntryValues ==
    {IntV(1), StrV("s"), Numbers(1), Numbers(2), Numbers(MaxEntries),
     MapOf(<<Numbers(MaxEntries), IntV(2), Numbers(0)>>)}

ValueMaps ==
    UNION {{MapOf(vals) : vals \in [1..n -> EntryValues]} : n \in 0..MaxEntries}

InitValue ==
    /\ input \in ValueMaps
    /\ model = Model("Unnamed")
    /\ call = [op |-> "Model"]
    /\ exc = NoExc
    /\ ret = NoneV
    /\ stream = <<>>
    /\ stdout = <<>>
    /\ printer = NoPrinter
    /\ memo = NoMemo

\* pprint(o, stream=None, start_indent=start) of a standalone node
RenderNode(o, field, start) ==
    LET opts == [stream |-> NoneV, draw_connections |-> FALSE, indentation |-> "  ",
                 width |-> DefaultWidth, start_indent |-> start]
    IN  /\ call' = [op |-> "pprint", field |-> field, opts |-> opts]
        /\ Printed(opts, pprint(o, opts))

\* pprint(Component("X", "x", init=input), None)
RenderInit ==
    \E start \in {0, 1} :
        RenderNode(Component("X", "x", NoneV, input, EmptyDict), "init", start)

\* pprint(Component("X", "x", annotation=input), None)
RenderAnnotation ==
    \E start \in {0, 1} :
        RenderNode(Component("X", "x", NoneV, NoneV,
                             DictV(<<Item("annotation", input)>>)),
                   "annotation", start)

NextValue ==
    \/ RenderInit
    \/ RenderAnnotation

SpecValue == InitValue /\ [][NextValue]_vars

-----------------------------------------------------------------------------
(* Rendering one Component whose modification map or annotation holds      *)
(* booleans, as values of entries and as elements of tuples and lists      *)

MaxBoolEntries == 2

\* the values of a drawn map: the two booleans, a tuple and a list of
\* booleans, a tuple of a number and a boolean, a map of one boolean
BoolValues ==
    {BoolV(TRUE), BoolV(FALSE),
     TupleV(<<BoolV(TRUE), BoolV(FALSE)>>),
     ListV(<<BoolV(TRUE)>>),
     TupleV(<<IntV(1), BoolV(FALSE)>>),
     MapOf(<<BoolV(TRUE)>>)}

BoolMaps ==
    UNION {{MapOf(vals) : vals \in [1..n -> BoolValues]} : n \in 1..MaxBoolEntries}

InitBool ==
    /\ input \in BoolMaps
    /\ model = Model("Unnamed")
    /\ call = [op |-> "Model"]
    /\ exc = NoExc
    /\ ret = NoneV
    /\ stream = <<>>
    /\ stdout = <<>>
    /\ printer = NoPrinter
    /\ memo = NoMemo

SpecBool == InitBool /\ [][NextValue]_vars

-----------------------------------------------------------------------------
(* Rendering a Model or a Component whose flags were combined with | in an *)
(* order drawn at the start                                                *)

\* model.py, ModelFlags
ModelFlagNames == {"Final", "Encapsulated", "Partial", "Replaceable"}

\* the sequences of distinct flags of a flag class
Orders(names) ==
    {s \in UNION {[1..n -> names] : n \in 0..Cardinality(names)} :
        \A i, j \in DOMAIN s : i # j => s[i] # s[j]}

\* f1 | f2 | ... of an enum.Flag class: the members set in the result;
\* none at all is flags=None
Combined(s) == IF s = <<>> THEN NoneV ELSE FlagsV({s[i] : i \in DOMAIN s})

InitFlags ==
    /\ input \in {[kind |-> "Model", flags |-> s] : s \in Orders(ModelFlagNames)}
               \cup {[kind |-> "Component", flags |-> s] : s \in Orders(ComponentFlagNames)}
    /\ model = Model("Unnamed")
    /\ call = [op |-> "Model"]
    /\ exc = NoExc
    /\ ret = NoneV
    /\ stream = <<>>
    /\ stdout = <<>>
    /\ printer = NoPrinter
    /\ memo = NoMemo

\* pprint(Model(flags=...), None)
RenderModelFlags ==
    \E start \in {0, 1} :
        /\ input.kind = "Model"
        /\ RenderNode([Model("Unnamed") EXCEPT !.flags = Combined(input.flags)],
                      "flags", start)

\* pprint(Component("X", "x", flags=...), None)
RenderComponentFlags ==
    \E start \in {0, 1} :
        /\ input.kind = "Component"
        /\ RenderNode(Component("X", "x", NoneV, NoneV,
                                DictV(<<Item("flags", Combined(input.flags))>>)),
                      "flags", start)

NextFlags ==
    \/ RenderModelFlags
    \/ RenderComponentFlags

SpecFlags == InitFlags /\ [][NextFlags]_vars

-----------------------------------------------------------------------------
(* Building a conditional or loop construct call by call.  ret is the      *)
(* object the last call returned, on which the next method is called;      *)
(* input keeps the elseif and elsewhen branches the caller has supplied.   *)

MaxCalls == 5

\* the tests and the *body arguments of the calls tried
Tests == {Expression("u > 0"), Expression("v > 0")}

Bodies ==
    { <<>>,
      <<Equation("a", "b")>>,
      <<Equation("a", "b"), Equation("c", "d")>>,
      <<Statement("s")>>,
      <<Equation("a", "b"), Statement("s")>>,
      <<Expression("e")>> }

\* the branches supplied so far: elseif(test) and elsewhen(test) open a
\* branch, a then(*body) on the object they return adds to its body
Supplied(branches, self, name, arg) ==
    IF name \in {"elseif", "elsewhen"} THEN Append(branches, Branch(arg, <<>>))
    ELSE IF name = "then"
            /\ self.t \in {"IfEquationElseif", "IfStatementElseif", "IfExpressionElseif",
                            "WhenEquationElsewhen", "WhenStatementElsewhen"}
    THEN [branches EXCEPT ![Len(branches)].body = @ \o arg]
    ELSE branches

InitCond ==
    /\ ret = NoneV
    /\ call = [op |-> "none", n |-> 0]
    /\ exc = NoExc
    /\ input = <<>>
    /\ model = Model("Unnamed")
    /\ stream = <<>>
    /\ stdout = <<>>
    /\ printer = NoPrinter
    /\ memo = NoMemo

\* If(test), When(test), For(i.In(test)), While(test)
Construct ==
    \E cls \in {"If", "When", "For", "While"}, test \in Tests :
        /\ call' = [op |-> cls, n |-> 1, arg |-> test]
        /\ ret' = IF cls = "For"
                  THEN [t |-> "For",
                        indices |-> <<[t |-> "ForIndex", ident |-> "i", expr |-> test]>>]
                  ELSE [t |-> cls, test |-> test]
        /\ exc' = NoExc
        /\ input' = <<>>
        /\ UNCHANGED <<model, stream, stdout, printer, memo>>

\* ret.<name>(arg) ended with out
Called(name, arg, out) ==
    /\ exc = NoExc
    /\ ret # NoneV
    /\ ret.t \in HasMethod(name)
    /\ call.n < MaxCalls
    /\ call' = [op |-> name, n |-> call.n + 1, arg |-> arg]
    /\ ret' = out.ret
    /\ exc' = out.exc
    /\ input' = IF out.exc = NoExc THEN Supplied(input, ret, name, arg) ELSE input
    /\ UNCHANGED <<model, stream, stdout, printer, memo>>

CallThen == \E body \in Bodies : Called("then", body, then(ret, body))

CallElseif == \E test \in Tests : Called("elseif", test, elseif(ret, test))

CallElsewhen == \E test \in Tests : Called("elsewhen", test, elsewhen(ret, test))

CallOrelse == \E body \in Bodies : Called("orelse", body, orelse(ret, body))

CallLoop == \E body \in Bodies : Called("loop", body, loop(ret, body))

CallEnd == Called("end", <<>>, end(ret))

NextCond ==
    \/ Construct
    \/ CallThen
    \/ CallElseif
    \/ CallElsewhen
    \/ CallOrelse
    \/ CallLoop
    \/ CallEnd

SpecCond == InitCond /\ [][NextCond]_vars

-----------------------------------------------------------------------------
(* Constructing an Assign and rendering it as an entry of a modification   *)
(* map.  input is the Assign the last constructor call returned; what the  *)
(* last pprint left behind is forgotten when a new one is constructed.     *)

\* misc.py, AssignFlags
AssignFlagNames == {"Each", "Final", "Redeclare", "Replaceable"}

\* an Assign.__init__ without its assertions
Assign_init_unchecked(value, init, flags, description, annotation, type) ==
    Gives(Assign(value, init, flags, description, annotation, type))

\* Assign.__init__, lines 46-48 and the assignments after them
Assign_init(value, init, flags, description, annotation, type) ==
    IF type # NoneV /\ flags = NoneV THEN Fails("AssertionError")
    ELSE IF type # NoneV /\ "Redeclare" \notin flags.set THEN Fails("AssertionError")
    ELSE Gives(Assign(value, init, flags, description, annotation, type))

\* the flags arguments tried: None and every combination of flags
AssignFlagsTried ==
    {NoneV} \cup {FlagsV(S) : S \in SUBSET AssignFlagNames \ {{}}}

InitAssign ==
    /\ input = NoneV
    /\ call = [op |-> "none"]
    /\ exc = NoExc
    /\ ret = NoneV
    /\ model = Model("Unnamed")
    /\ stream = <<>>
    /\ stdout = <<>>
    /\ printer = NoPrinter
    /\ memo = NoMemo

\* Assign(value, flags=flags, type=type)
NewAssign ==
    \E value \in {NoneV, IntV(1)}, flags \in AssignFlagsTried,
       type \in {NoneV, StrV("Real")} :
        LET out == Assign_init(value, NoneV, flags, NoneV, NoneV, type)
        IN  /\ call' = [op |-> "Assign", value |-> value, flags |-> flags, type |-> type]
            /\ input' = out.ret
            /\ exc' = out.exc
            /\ ret' = NoneV
            /\ stream' = <<>>
            /\ stdout' = <<>>
            /\ printer' = NoPrinter
            /\ memo' = NoMemo
            /\ UNCHANGED model

\* pprint(Component("X", "x", init={"a": input}), None)
RenderAssign ==
    \E start \in {0, 1} :
        /\ input.t = "Assign"
        /\ RenderNode(Component("X", "x", NoneV, DictV(<<Item("a", input)>>), EmptyDict),
                      "init", start)

NextAssign ==
    \/ NewAssign
    \/ RenderAssign

SpecAssign == InitAssign /\ [][NextAssign]_vars

-----------------------------------------------------------------------------
(* Rendering a node of each kind that owns an annotation, the annotation    *)
(* being a tree drawn at the start: a plain map, or a map with a list of    *)
(* maps as the value of its entry g                                         *)

MaxElements == 2

\* the elements of a drawn list: a map of one number, of one map, of one
\* map that holds a list of maps itself, of two entries and of none
ElementMaps ==
    {DictV(<<Item("L", IntV(1))>>),
     DictV(<<Item("R", Numbers(1))>>),
     DictV(<<Item("N", DictV(<<Item("g", ListV(<<DictV(<<Item("K", IntV(1))>>)>>))>>))>>),
     DictV(<<Item("P", IntV(1)), Item("Q", IntV(2))>>),
     EmptyDict}

ElementLists == UNION {[1..n -> ElementMaps] : n \in 1..MaxElements}

\* the trees drawn: no entry, one, three, and the lists alone and after
\* another entry
AnnotationTrees ==
    {Numbers(0), Numbers(1), Numbers(3)}
    \cup {DictV(<<Item("g", ListV(es))>>) : es \in ElementLists}
    \cup {DictV(<<Item("h", IntV(2)), Item("g", ListV(es))>>) : es \in ElementLists}

\* the kinds of node that have an annotation field and a visit function
Owners == {"Model", "Component", "Equation", "Connect", "Algorithm"}

\* a node of the kind with the tree as its annotation; the Model holds one
\* equation
Owner(kind, tree) ==
    CASE kind = "Model" ->
            [Model("M") EXCEPT !.annotation = tree, !.equations = <<Equation("a", "b")>>]
      [] kind = "Component" ->
            Component("X", "x", NoneV, NoneV, DictV(<<Item("annotation", tree)>>))
      [] kind = "Equation" -> [Equation("a", "b") EXCEPT !.annotation = tree]
      [] kind = "Connect" ->
            [Connect(StrV("x.p"), StrV("y.q"), NoneV) EXCEPT !.annotation = tree]
      [] kind = "Algorithm" -> Algorithm("a", "b", NoneV, tree)

InitAnnotation ==
    /\ input \in AnnotationTrees
    /\ model = Model("Unnamed")
    /\ call = [op |-> "Model"]
    /\ exc = NoExc
    /\ ret = NoneV
    /\ stream = <<>>
    /\ stdout = <<>>
    /\ printer = NoPrinter
    /\ memo = NoMemo

\* pprint(owner, f, start_indent=start) on a stream f of the caller
RenderOwner ==
    \E kind \in Owners, start \in {0, 1} :
        LET opts == [stream |-> CallerStream, draw_connections |-> FALSE,
                     indentation |-> "  ", width |-> DefaultWidth,
                     start_indent |-> start]
        IN  /\ call' = [op |-> "pprint", owner |-> kind, opts |-> opts]
            /\ Printed(opts, pprint(Owner(kind, input), opts))

NextAnnotation == RenderOwner

SpecAnnotation == InitAnnotation /\ [][NextAnnotation]_vars

-----------------------------------------------------------------------------
(* Declaring components and parameters only: every subset of the placement *)
(* options, flags, and a keyword that Component does not take               *)

\* the placement options and the value each call passes for them
PlacementOptions == <<"pos", "rotation", "flip", "size", "visible">>

PlacementValue(name) ==
    CASE name = "pos" -> TupleV(<<IntV(0), IntV(0)>>)
      [] name = "rotation" -> IntV(90)
      [] name = "flip" -> StrV("horiz")
      [] name = "size" -> IntV(20)
      [] name = "visible" -> BoolV(TRUE)

\* **kwargs holding the options of a set, in the order above
PlacementKwargs(S) ==
    LET names == SelectSeq(PlacementOptions, LAMBDA n : n \in S)
    IN  DictV([i \in DOMAIN names |-> Item(names[i], PlacementValue(names[i]))])

\* flags and **kwargs of the calls tried: every subset of the placement
\* options without flags, then flags that exist, a flag that does not, and
\* a keyword that is neither a placement option nor one of Component's
DeclaredOptions ==
    {[flags |-> NoneV, kwargs |-> PlacementKwargs(S), protected |-> FALSE] :
        S \in SUBSET {"pos", "rotation", "flip", "size", "visible"}}
    \cup {[flags |-> f, kwargs |-> EmptyDict, protected |-> p] :
            f \in {NoneV, StrV("inner final"), StrV("bogus")}, p \in BOOLEAN}
    \cup {[flags |-> NoneV, kwargs |-> DictV(<<Item("colour", StrV("red"))>>),
           protected |-> p] : p \in BOOLEAN}

\* the parameters declared: with and without a position, with a rotation
\* and no position, with a flag that does not exist
ParameterOptions ==
    {[flags |-> NoneV, kwargs |-> PlacementKwargs(S), protected |-> p] :
        S \in {{}, {"pos"}, {"rotation"}}, p \in BOOLEAN}
    \cup {[flags |-> StrV("bogus"), kwargs |-> EmptyDict, protected |-> FALSE]}

\* the arguments of add_component for an identifier and options
DeclaredArgs(ident, o, parameter) ==
    [typ |-> "Real", ident |-> ident, value |-> NoneV, init |-> NoneV,
     protected |-> o.protected, parameter |-> parameter, flags |-> o.flags,
     kwargs |-> o.kwargs]

Declared(op, ident, o) ==
    [op |-> op, ident |-> ident, protected |-> o.protected, flags |-> o.flags,
     kwargs |-> o.kwargs]

DeclareComponent ==
    \E ident \in Idents, o \in DeclaredOptions :
        /\ NodeCount(model) < MaxNodes
        /\ call' = Declared("add_component", ident, o)
        /\ Built(add_component(model, DeclaredArgs(ident, o, FALSE)))

DeclareParameter ==
    \E ident \in Idents, o \in ParameterOptions :
        /\ NodeCount(model) < MaxNodes
        /\ call' = Declared("add_parameter", ident, o)
        /\ Built(add_parameter(model, DeclaredArgs(ident, o, FALSE)))

NextComponent ==
    \/ DeclareComponent
    \/ DeclareParameter

SpecComponent == Init /\ [][NextComponent]_vars

-----------------------------------------------------------------------------
(* Saving Models into one folder.  input is the folder; its package.order  *)
(* holds, at the start, lines that differ from one another.                 *)

MaxLines == 2

\* the lines a package.order may hold at the start: identifiers, an
\* identifier after or before a blank, and an empty line
LinesTried ==
    {<<"A">>, <<"C">>, <<"A", " ">>, <<" ", "B">>, <<>>}

\* the sequences of up to MaxLines lines, no line twice
OrdersTried ==
    UNION {{ls \in [1..n -> LinesTried] : \A i, j \in 1..n : ls[i] = ls[j] => i = j} :
           n \in 0..MaxLines}

\* no file at all
NoFiles == [name \in {} |-> <<>>]

FoldersTried ==
    {Folder(TRUE, ListV(ls), NoFiles) : ls \in OrdersTried}
    \cup {Folder(TRUE, NoneV, NoFiles), Folder(FALSE, NoneV, NoFiles)}

\* the Models saved: two that render and one that holds a node without a
\* visit function
ModelsSaved ==
    {Model("A"), Model("B"),
     [Model("B") EXCEPT !.algorithms = <<Statement("s")>>]}

InitSave ==
    /\ input \in FoldersTried
    /\ model = Model("Unnamed")
    /\ call = [op |-> "Model"]
    /\ exc = NoExc
    /\ ret = NoneV
    /\ stream = <<>>
    /\ stdout = <<>>
    /\ printer = NoPrinter
    /\ memo = NoMemo

\* a save ended: the folder is what the call left
Saved(m, draw, out) ==
    /\ call' = [op |-> "save", ident |-> m.ident, draw_connections |-> draw]
    /\ model' = m
    /\ input' = out.folder
    /\ exc' = out.exc
    /\ stdout' = out.stdout
    /\ ret' = NoneV
    /\ UNCHANGED <<stream, printer, memo>>

Save ==
    \E m \in ModelsSaved, draw \in BOOLEAN :
        Saved(m, draw, save(m, input, draw))

NextSave == Save

SpecSave == InitSave /\ [][NextSave]_vars

-----------------------------------------------------------------------------
(* Visiting a tree with a printer of one's own and looking at the printer  *)
(* after every statement of the visit.  input is the tree; memo keeps what  *)
(* the looks saw.                                                           *)

\* the Models visited: one with a Text block of two lines in each of two
\* sections, one with a Component in every declaration section and an
\* if-equation with an elseif branch, one with an annotation of three entries
ModelsVisited ==
    LET E == Expression("u > 0")
        eq == Equation("a", "b")
        X == Component("X", "x", NoneV, Numbers(MaxEntries), EmptyDict)
    IN  {[Model("M") EXCEPT !.public_section = <<Text(<<"// a", "// b">>, TRUE)>>,
                            !.equations = <<Text(<<"// c", "">>, FALSE), eq>>],
         [Model("M") EXCEPT !.public_section = <<X>>,
                            !.protected_section = <<X>>,
                            !.equations =
                               <<IfEquationElseif_end(E, <<eq, eq>>, <<Branch(E, <<eq>>)>>)>>,
                            !.annotation = Numbers(3)],
         [Model("M") EXCEPT !.algorithms = <<Statement("s")>>]}

\* the trees visited: a Component with each modification map, a Component
\* and a Model with each annotation tree, an if-equation and the Models
TreesVisited ==
    {Component("X", "x", NoneV, m, EmptyDict) : m \in ValueMaps}
    \cup {Owner(kind, tree) : kind \in {"Component", "Model"}, tree \in AnnotationTrees}
    \cup {IfEquationElseif_end(Expression("u > 0"), <<Equation("a", "b")>>,
                               <<Branch(Expression("v > 0"), <<Equation("c", "d")>>)>>)}
    \cup ModelsVisited

InitVisit ==
    /\ input \in TreesVisited
    /\ model = Model("Unnamed")
    /\ call = [op |-> "Model"]
    /\ exc = NoExc
    /\ ret = NoneV
    /\ stream = <<>>
    /\ stdout = <<>>
    /\ printer = NoPrinter
    /\ memo = NoMemo

\* what is left when a printer has visited a tree
Visit(start, p) ==
    /\ call' = [op |-> "visit", start_indent |-> start]
    /\ exc' = p.exc
    /\ stream' = p.stream
    /\ stdout' = p.stdout
    /\ printer' = [indent |-> p.indent, curpos |-> p.curpos, charcount |-> p.charcount]
    /\ memo' = [t |-> "log", seen |-> p.log]
    /\ ret' = NoneV
    /\ UNCHANGED <<model, input>>

\* p = PrettyPrinter(f, start_indent=start, draw_connections=False); p.visit(input)
VisitTree ==
    \E start \in {0, 1} :
        Visit(start, visit(PrettyPrinter("  ", DefaultWidth, start, FALSE), input))

NextVisit == VisitTree

SpecVisit == InitVisit /\ [][NextVisit]_vars

-----------------------------------------------------------------------------
(* condition.py: the staged builders of if- and when-equations with the    *)
(* lists they hold taken as the objects they are.  A list lives on a heap   *)
(* at an address; a stage or a finished construct holds the addresses of    *)
(* its lists, and a branch (test, []) holds the address of its body.        *)

MaxSteps == 4

\* a new list: its address is the next one
alloc(h, content) == Append(h, content)

\* lst.extend(items) and lst.append(item) of the list at an address
extend(h, a, items) == [h EXCEPT ![a] = @ \o items]

\* what a call leaves: the heap, and the object returned or the exception
Did(h, o) == [heap |-> h, ret |-> o, exc |-> NoExc]
Raised(h, e) == [heap |-> h, ret |-> NoneV, exc |-> e]

\* If(test).then(*body) and When(test).then(*body) with equations:
\* list(body) is a new list
first_then(h, kind, test, body) ==
    Did(alloc(h, body),
        [t |-> IF kind = "If" THEN "IfEquationBody" ELSE "WhenEquationBody",
         test |-> test, body |-> Len(h) + 1])

\* the last branch of the list of branches at an address
LastBranch(h, a) == h[a][Len(h[a])]

\* then(*body) of IfEquationBody, IfEquationElseif, IfEquationOrelse,
\* WhenEquationBody and WhenEquationElsewhen
then_of(h, self, body) ==
    CASE self.t \in {"IfEquationBody", "WhenEquationBody"} ->
            Did(extend(h, self.body, body), self)
      [] self.t = "IfEquationElseif" ->
            Did(extend(h, LastBranch(h, self.elseif).body, body), self)
      [] self.t = "WhenEquationElsewhen" ->
            Did(extend(h, LastBranch(h, self.elsewhen).body, body), self)
      [] self.t = "IfEquationOrelse" -> Did(extend(h, self.orelse, body), self)

\* elseif(test) of IfEquationBody and IfEquationElseif: (test, []) holds a
\* new list; IfEquationBody puts it into a new list of branches
elseif_of(h, self, test) ==
    CASE self.t = "IfEquationBody" ->
            Did(alloc(alloc(h, <<>>), <<[test |-> test, body |-> Len(h) + 1]>>),
                [t |-> "IfEquationElseif", test |-> self.test, body |-> self.body,
                 elseif |-> Len(h) + 2])
      [] self.t = "IfEquationElseif" ->
            Did(extend(alloc(h, <<>>), self.elseif,
                       <<[test |-> test, body |-> Len(h) + 1]>>),
                self)

\* elsewhen(test) of WhenEquationBody and WhenEquationElsewhen
elsewhen_of(h, self, test) ==
    CASE self.t = "WhenEquationBody" ->
            Did(alloc(alloc(h, <<>>), <<[test |-> test, body |-> Len(h) + 1]>>),
                [t |-> "WhenEquationElsewhen", test |-> self.test, body |-> self.body,
                 elsewhen |-> Len(h) + 2])
      [] self.t = "WhenEquationElsewhen" ->
            Did(extend(alloc(h, <<>>), self.elsewhen,
                       <<[test |-> test, body |-> Len(h) + 1]>>),
                self)

\* orelse(*body) of IfEquationBody, IfEquationElseif and IfEquationOrelse
orelse_of(h, self, body) ==
    CASE self.t = "IfEquationBody" -> Raised(h, "NotImplementedError")
      [] self.t = "IfEquationElseif" ->
            Did(alloc(h, body),
                [t |-> "IfEquationOrelse", test |-> self.test, body |-> self.body,
                 elseif |-> self.elseif, orelse |-> Len(h) + 1])
      [] self.t = "IfEquationOrelse" -> Did(extend(h, self.orelse, body), self)

\* end() of the five stages: the construct holds the lists of the stage
end_of(h, self) ==
    CASE self.t = "IfEquationBody" ->
            Did(alloc(h, <<>>),
                [t |-> "IfEquation", test |-> self.test, body |-> self.body,
                 elseif |-> Len(h) + 1, orelse |-> NoneV])
      [] self.t = "IfEquationElseif" ->
            Did(h, [t |-> "IfEquation", test |-> self.test, body |-> self.body,
                    elseif |-> self.elseif, orelse |-> NoneV])
      [] self.t = "IfEquationOrelse" ->
            Did(h, [t |-> "IfEquation", test |-> self.test, body |-> self.body,
                    elseif |-> self.elseif, orelse |-> self.orelse])
      [] self.t = "WhenEquationBody" ->
            Did(alloc(h, <<>>),
                [t |-> "WhenEquation", test |-> self.test, body |-> self.body,
                 elsewhen |-> Len(h) + 1])
      [] self.t = "WhenEquationElsewhen" ->
            Did(h, [t |-> "WhenEquation", test |-> self.test, body |-> self.body,
                    elsewhen |-> self.elsewhen])

-----------------------------------------------------------------------------
(* Building if- and when-equations while keeping every stage and every     *)
(* construct obtained.  memo is the heap, ret the stages the caller holds,  *)
(* input the constructs that end() has returned.                            *)

Heap(h) == [t |-> "heap", lists |-> h]

InitShare ==
    /\ memo = Heap(<<>>)
    /\ ret = <<>>
    /\ input = <<>>
    /\ call = [op |-> "none", n |-> 0]
    /\ exc = NoExc
    /\ model = Model("Unnamed")
    /\ stream = <<>>
    /\ stdout = <<>>
    /\ printer = NoPrinter

\* a call ended: a new stage or construct returned is kept with the others
Kept(name, self, out) ==
    /\ call' = [op |-> name, self |-> self, n |-> call.n + 1]
    /\ exc' = out.exc
    /\ memo' = Heap(out.heap)
    /\ ret' = IF out.exc = NoExc /\ out.ret.t \notin {"IfEquation", "WhenEquation"}
                 /\ \A i \in DOMAIN ret : ret[i] # out.ret
              THEN Append(ret, out.ret) ELSE ret
    /\ input' = IF out.exc = NoExc /\ out.ret.t \in {"IfEquation", "WhenEquation"}
                THEN Append(input, out.ret) ELSE input
    /\ UNCHANGED <<model, stream, stdout, printer>>

\* the equations and the test the calls pass
ShareBody == <<Equation("a", "b")>>
ShareTest == Expression("u > 0")

\* stage = If(test).then(eq) or When(test).then(eq): the start of a chain
Start ==
    \E kind \in {"If", "When"} :
        /\ ret = <<>>
        /\ Kept("then", [t |-> kind],
                first_then(memo.lists, kind, ShareTest, ShareBody))

\* a method of a stage the caller holds is called
OnStage(name, self) ==
    /\ call.n < MaxSteps
    /\ self.t \in HasMethod(name)

ThenOn ==
    \E i \in DOMAIN ret :
        /\ OnStage("then", ret[i])
        /\ Kept("then", ret[i], then_of(memo.lists, ret[i], ShareBody))

ElseifOn ==
    \E i \in DOMAIN ret :
        /\ OnStage("elseif", ret[i])
        /\ Kept("elseif", ret[i], elseif_of(memo.lists, ret[i], ShareTest))

ElsewhenOn ==
    \E i \in DOMAIN ret :
        /\ OnStage("elsewhen", ret[i])
        /\ Kept("elsewhen", ret[i], elsewhen_of(memo.lists, ret[i], ShareTest))

OrelseOn ==
    \E i \in DOMAIN ret :
        /\ OnStage("orelse", ret[i])
        /\ Kept("orelse", ret[i], orelse_of(memo.lists, ret[i], ShareBody))

EndOn ==
    \E i \in DOMAIN ret :
        /\ OnStage("end", ret[i])
        /\ Kept("end", ret[i], end_of(memo.lists, ret[i]))

NextShare ==
    \/ Start
    \/ ThenOn
    \/ ElseifOn
    \/ ElsewhenOn
    \/ OrelseOn
    \/ EndOn

SpecShare == InitShare /\ [][NextShare]_vars

-----------------------------------------------------------------------------
(* Claims about the builder functions, checked under Spec *)

IsComponentCall(c) == c.op \in {"add_component", "add_parameter"}

\* C1: add_component or add_parameter called with an identifier that the
\* Model's registry already holds raises, and the Model (its registry and
\* its six sections) is after the call what it was before.
C1_DuplicateIdentFails ==
    [][(IsComponentCall(call') /\ call'.ident \in DOMAIN model.components)
        => (exc' # NoExc /\ model' = model)]_vars

\* C1 witness: an add_component call has just failed on a registered identifier.
C1_Witness ==
    /\ call.op = "add_component"
    /\ call.ident \in DOMAIN model.components
    /\ exc = "KeyError"

\* C2: no two Component nodes of the public and protected sections together
\* have the same identifier, whatever builder calls were made.
C2_UniqueIdents ==
    LET d == Declarations(model)
    IN  \A i, j \in DOMAIN d :
            (i # j /\ d[i].t = "Component" /\ d[j].t = "Component")
                => d[i].ident # d[j].ident

\* the owner part of a four-argument add_connect: a name or a Component's identifier
OwnerName(r) == IF r.t = "Component" THEN r.ident ELSE r.s

\* C10: add_connect with 2 references stores them as they are, with 4 it
\* stores "owner1.port1" and "owner2.port2", and with any other number it
\* raises and leaves the Model alone; a call that succeeds appends exactly
\* one Connect to the equation section, changes nothing else, and succeeds
\* whether or not the registry knows the owners.
C10_AddConnectArity ==
    [][call'.op = "add_connect" =>
        LET r == call'.refs
            old == model.equations
            new == model'.equations
            c == new[Len(new)]
        IN  IF Len(r) \in {2, 4}
            THEN /\ exc' = NoExc
                 /\ Len(new) = Len(old) + 1
                 /\ SubSeq(new, 1, Len(old)) = old
                 /\ [model' EXCEPT !.equations = old] = model
                 /\ c.t = "Connect"
                 /\ IF Len(r) = 2
                    THEN c.ref1 = r[1] /\ c.ref2 = r[2]
                    ELSE /\ c.ref1 = StrV(OwnerName(r[1]) \o "." \o r[2].s)
                         /\ c.ref2 = StrV(OwnerName(r[3]) \o "." \o r[4].s)
            ELSE exc' # NoExc /\ model' = model]_vars

\* C10 witness: a four-argument call has stored a reference to an owner
\* that was never registered.
C10_Witness ==
    /\ call.op = "add_connect"
    /\ Len(call.refs) = 4
    /\ exc = NoExc
    /\ "z" \notin DOMAIN model.components
    /\ model.equations # <<>>
    /\ model.equations[Len(model.equations)].ref2 = StrV("z.q")


-----------------------------------------------------------------------------
(* Claims about the layout of value maps, checked under SpecValue *)

\* the indentation at a depth
Indent(depth) == Times(depth, "  ")

RECURSIVE Layout(_, _), EntryText(_, _)

\* an entry of a map laid out at a depth: a nested map after its key, any
\* other value as key=value
EntryText(it, depth) ==
    IF IsDict(it.val) THEN it.key \o Layout(it.val, depth)
    ELSE it.key \o "=" \o PyStr(it.val)

\* the arity rule: nothing for no entry, one line for one or two entries,
\* and from three entries on a line of its own for each, one level deeper,
\* a comma after each but the last and the closing parenthesis after the last
Layout(d, depth) ==
    LET n == DictLen(d)
        e(i) == EntryText(d.items[i], depth)
        line(i) == Indent(depth + 1) \o EntryText(d.items[i], depth + 1)
    IN  IF n = 0 THEN ""
        ELSE IF n = 1 THEN "(" \o e(1) \o ")"
        ELSE IF n = 2 THEN "(" \o e(1) \o ", " \o e(2) \o ")"
        ELSE "(" \o NL \o Join([i \in 1..n |-> line(i)], "," \o NL) \o ")"

\* whether a map has an entry that is a map of n or more entries
NestsMapOf(d, n) ==
    \E i \in DOMAIN d.items : IsDict(d.items[i].val) /\ DictLen(d.items[i].val) >= n

\* C3: the modification map of a declaration is rendered by the arity rule,
\* maps nested as values included: no parentheses for no entry, "(k=v)" for
\* one, "(k1=v1, k2=v2)" for two, and for three or more "(" and a line
\* break, one entry per line one level deeper, one comma directly after
\* every entry but the last and ")" directly after the last.
C3_ModificationLayout ==
    (call.op = "pprint" /\ call.field = "init") =>
        /\ exc = NoExc
        /\ ret = StrV(Indent(call.opts.start_indent) \o "X x"
                      \o Layout(input, call.opts.start_indent) \o ";" \o NL)

\* C3 witness: a map of three or more entries that nests a map of three or
\* more entries has been rendered as a modification, one level in.
C3_Witness ==
    /\ call.op = "pprint"
    /\ call.field = "init"
    /\ call.opts.start_indent = 1
    /\ DictLen(input) >= 3
    /\ NestsMapOf(input, 3)
    /\ exc = NoExc
    /\ ret # NoneV

\* C4: an annotation tree is rendered by the same arity rule as a
\* modification map: nothing for no entry, one line for one entry, one line
\* "(name1=value1, name2=value2)" for exactly two, the multi-line layout
\* only from three entries on.
C4_AnnotationLayout ==
    (call.op = "pprint" /\ call.field = "annotation") =>
        /\ exc = NoExc
        /\ ret = StrV(Indent(call.opts.start_indent) \o "X x"
                      \o (IF DictLen(input) = 0 THEN ""
                          ELSE " annotation " \o Layout(input, call.opts.start_indent))
                      \o ";" \o NL)

-----------------------------------------------------------------------------
(* Claims about rendering a Model, checked under SpecPrint *)

\* the text the last pprint produced: what it returned, or what the
\* caller's stream holds
Produced == IF call.opts.stream = NoneV THEN ret.s ELSE Joined(stream)

C7_NoPartialOutput ==
    (call.op = "pprint" /\ exc # NoExc) => stream = <<>>

\* the Model without the i-th node of a section
Without(m, where, i) ==
    LET cut(nodes) == SubSeq(nodes, 1, i - 1) \o SubSeq(nodes, i + 1, Len(nodes))
    IN  CASE where = "public" -> [m EXCEPT !.public_section = cut(@)]
          [] where = "protected" -> [m EXCEPT !.protected_section = cut(@)]
          [] where = "initial equation" -> [m EXCEPT !.initial_equations = cut(@)]
          [] where = "initial algorithm" -> [m EXCEPT !.initial_algorithms = cut(@)]
          [] where = "equation" -> [m EXCEPT !.equations = cut(@)]
          [] where = "algorithm" -> [m EXCEPT !.algorithms = cut(@)]

\* the nodes of a section
SectionOf(m, where) ==
    CASE where = "public" -> m.public_section
      [] where = "protected" -> m.protected_section
      [] where = "initial equation" -> m.initial_equations
      [] where = "initial algorithm" -> m.initial_algorithms
      [] where = "equation" -> m.equations
      [] where = "algorithm" -> m.algorithms

\* the text pprint gives for a Model under the options, when it succeeds
TextOf(m, opts) ==
    LET out == pprint(m, [opts EXCEPT !.stream = NoneV]) IN out.ret.s

\* C8: when a render of a Model succeeds, every node of every section has
\* contributed text: the output differs from that of the Model without it.
C8_EveryNodeContributes ==
    (call.op = "pprint" /\ exc = NoExc) =>
        \A where \in Sections : \A i \in DOMAIN SectionOf(model, where) :
            TextOf(Without(model, where, i), call.opts) # Produced

\* the node types that the builder functions and the finished If and When
\* constructs of PrintAdds are
BuilderTypes == {"Component", "Equation", "Connect", "Text", "IfEquation", "WhenEquation"}

\* the nodes of all sections
AllNodes(m) ==
    m.public_section \o m.protected_section \o m.initial_equations
    \o m.initial_algorithms \o m.equations \o m.algorithms

\* C9: rendering a Model whose sections hold only nodes that the builders
\* produce (finished If and When constructs included) succeeds.
C9_BuilderNodesRender ==
    (call.op = "pprint"
     /\ \A i \in DOMAIN AllNodes(model) : AllNodes(model)[i].t \in BuilderTypes)
        => exc = NoExc

-----------------------------------------------------------------------------
(* Claims about the section a node is added to, checked under SpecAdd *)

\* the arguments of the call other than where are ones the builder takes
TakesArguments(c) ==
    c.op = "add_comment" => (c.type \in CommentTypes /\ Len(c.lines) > 0)

\* the node is the one the call was to add
IsAdded(node, c) ==
    CASE c.op = "Model.add" -> node = c.some
      [] c.op = "add_text" -> node = Text(c.lines, FALSE)
      [] c.op = "add_comment" -> node.t = "Text" /\ Len(node.lines) = Len(c.lines)

\* C13: Model.add, add_text and add_comment called with a where that is none
\* of the six section names fail and leave all six sections and the
\* component registry as they were; called with a section name (and
\* arguments the builder takes) they succeed, the node is appended to that
\* section and the other five sections are unchanged.
C13_UnknownSection ==
    [][call'.op \in {"Model.add", "add_text", "add_comment"} =>
        IF call'.where \notin Sections
        THEN /\ exc' # NoExc
             /\ \A where \in Sections : SectionOf(model', where) = SectionOf(model, where)
             /\ model'.components = model.components
        ELSE TakesArguments(call') =>
             /\ exc' = NoExc
             /\ \A where \in Sections \ {call'.where} :
                    SectionOf(model', where) = SectionOf(model, where)
             /\ LET after == SectionOf(model', call'.where)
                IN  /\ Len(after) = Len(SectionOf(model, call'.where)) + 1
                    /\ SubSeq(after, 1, Len(after) - 1) = SectionOf(model, call'.where)
                    /\ IsAdded(after[Len(after)], call')]_vars

\* C13 witness: add_comment, with a type it knows and a line, was called on
\* a Model that holds a node with a where that names no section, and failed.
C13_Witness ==
    /\ call.op = "add_comment"
    /\ TakesArguments(call)
    /\ call.where \notin Sections
    /\ exc = "ValueError"
    /\ NodeCount(model) > 0

-----------------------------------------------------------------------------
(* Claims about the import builder and the order of a section, checked     *)
(* under SpecPrint                                                         *)

\* a sequence of names: a list or a tuple
IsSequence(v) == v.t \in {"list", "tuple"}

\* the import node the three shapes of arg stand for
ImportNode(name, arg) ==
    CASE arg = NoneV -> QualifiedImport(name)
      [] IsSequence(arg) -> MultiImport(name, Strs(arg.elems))
      [] arg.t = "str" -> NamedImport(arg.s, name)

\* the statement line the three shapes of arg stand for
ImportLine(name, arg) ==
    CASE arg = NoneV -> "import " \o name \o ";"
      [] IsSequence(arg) -> "import " \o name \o ".{" \o Join(Strs(arg.elems), ", ") \o "};"
      [] arg.t = "str" -> "import " \o arg.s \o " = " \o name \o ";"

\* pprint(o, stream=None) with the defaults
PlainOptions ==
    [stream |-> NoneV, draw_connections |-> FALSE, indentation |-> "  ",
     width |-> DefaultWidth, start_indent |-> 0]

\* C11: add_import with arg absent appends a qualified import, with a
\* sequence of names a multi import, with a single string a named import;
\* the call succeeds, appends exactly that one node to the public section
\* and nothing else changes, and the node renders as its statement line.
C11_ImportVariant ==
    [][call'.op = "add_import" =>
        /\ exc' = NoExc
        /\ model' = [model EXCEPT !.public_section =
                        Append(@, ImportNode(call'.name, call'.arg))]
        /\ pprint(ImportNode(call'.name, call'.arg), PlainOptions).ret
             = StrV(ImportLine(call'.name, call'.arg) \o NL)]_vars

\* the text one node renders to on its own, the printer starting at a depth
NodeText(node, opts, depth) ==
    Joined(visit(PrettyPrinter(opts.indentation, opts.width, depth, FALSE), node).stream)

\* the texts of the nodes of a sequence, first to last
RECURSIVE NodesText(_, _, _)
NodesText(nodes, opts, depth) ==
    IF nodes = <<>> THEN ""
    ELSE NodeText(Head(nodes), opts, depth) \o NodesText(Tail(nodes), opts, depth)

\* the text of a section: its keyword line, unless it is the public one or
\* empty, and the texts of its nodes in the order of the section
SectionText(m, where, opts) ==
    LET depth == opts.start_indent
        nodes == SectionOf(m, where)
    IN  (IF where = "public" \/ nodes = <<>> THEN ""
         ELSE Times(depth, opts.indentation) \o where \o NL)
        \o NodesText(nodes, opts, depth + 1)

\* the text of a Model without within, flags, description and annotation
ModelText(m, opts) ==
    LET margin == Times(opts.start_indent, opts.indentation)
    IN  margin \o "model " \o m.ident \o NL
        \o SectionText(m, "public", opts)
        \o SectionText(m, "protected", opts)
        \o SectionText(m, "initial equation", opts)
        \o SectionText(m, "initial algorithm", opts)
        \o SectionText(m, "equation", opts)
        \o SectionText(m, "algorithm", opts)
        \o margin \o "end " \o m.ident \o ";" \o NL

\* the section a builder call targets and the node it adds
Target(c) ==
    CASE c.op = "Model.add" -> [where |-> c.where, node |-> c.some]
      [] c.op = "add_import" -> [where |-> "public", node |-> ImportNode(c.name, c.arg)]

\* C12: a builder call that succeeds appends its node at the end of the
\* section it targets and leaves the entries of every section as they were,
\* in their order; and a render that succeeds gives, for each section, the
\* texts of its nodes one after the other in the order they were added.
C12_SectionOrder ==
    /\ [][(call'.op \in {"Model.add", "add_import"} /\ exc' = NoExc) =>
            \A where \in Sections :
                SectionOf(model', where) =
                    IF where = Target(call').where
                    THEN Append(SectionOf(model, where), Target(call').node)
                    ELSE SectionOf(model, where)]_vars
    /\ []((call.op = "pprint" /\ exc = NoExc) =>
            Produced = ModelText(model, call.opts))

\* C12 witness: a section holds two different nodes, added one after the
\* other, and the Model has been rendered.
C12_Witness ==
    /\ call.op = "pprint"
    /\ exc = NoExc
    /\ \E where \in Sections :
          /\ Len(SectionOf(model, where)) = 2
          /\ SectionOf(model, where)[1] # SectionOf(model, where)[2]
          /\ NodeText(SectionOf(model, where)[1], call.opts, 1)
               # NodeText(SectionOf(model, where)[2], call.opts, 1)

\* the places of the line breaks in a text
Breaks(text) == SelectSeq([i \in 1..Len(text) |-> i], LAMBDA i : text[i] = NL)

\* the lines of a text that ends with a line break
Lines(text) ==
    [k \in 1..Len(Breaks(text)) |->
        Pieces(text, IF k = 1 THEN 1 ELSE Breaks(text)[k - 1] + 1, Breaks(text)[k] - 1)]

\* the lines a sequence of nodes renders to, the printer starting at a depth
RECURSIVE NodesLines(_, _, _)
NodesLines(nodes, opts, depth) ==
    IF nodes = <<>> THEN <<>>
    ELSE Lines(visit(PrettyPrinter(opts.indentation, opts.width, depth, FALSE),
                     Head(nodes)).stream)
         \o NodesLines(Tail(nodes), opts, depth)

\* the sections that have a keyword line, in the order of the claim
KeywordSections ==
    <<"protected", "initial equation", "initial algorithm", "equation", "algorithm">>

\* the places of a line in a sequence of lines
Places(lines, line) == {i \in DOMAIN lines : lines[i] = line}

-----------------------------------------------------------------------------
(* Claims about flag keywords, checked under SpecFlags *)

\* the canonical keyword list of a node kind, each keyword with its flag
Canonical(kind) ==
    IF kind = "Model"
    THEN <<[flag |-> "Final", word |-> "final"],
           [flag |-> "Encapsulated", word |-> "encapsulated"],
           [flag |-> "Partial", word |-> "partial"],
           [flag |-> "Replaceable", word |-> "replaceable"]>>
    ELSE <<[flag |-> "Final", word |-> "final"],
           [flag |-> "Inner", word |-> "inner"],
           [flag |-> "Outer", word |-> "outer"]>>

\* the canonical list filtered by the flags combined, each keyword
\* followed by a blank
Keywords(kind, combined) ==
    LET here == SelectSeq(Canonical(kind),
                          LAMBDA k : \E i \in DOMAIN combined : combined[i] = k.flag)
    IN  Join([i \in DOMAIN here |-> here[i].word \o " "], "")

\* C14: the flag keywords of a rendered Model are final, encapsulated,
\* partial, replaceable filtered by the flags present, those of a Component
\* final, inner, outer filtered by the flags present, in that order whatever
\* the order the flags were combined in; a Component's replaceable flag is
\* never written.
C14_FlagKeywords ==
    (call.op = "pprint" /\ call.field = "flags") =>
        LET margin == Indent(call.opts.start_indent)
            keywords == Keywords(input.kind, input.flags)
        IN  /\ exc = NoExc
            /\ ret = StrV(IF input.kind = "Model"
                          THEN keywords \o margin \o "model Unnamed" \o NL
                               \o margin \o "end Unnamed;" \o NL
                          ELSE margin \o keywords \o "X x;" \o NL)

\* C14 witness: a Component whose flags were combined as
\* Replaceable | Outer | Final has been rendered.
C14_Witness ==
    /\ call.op = "pprint"
    /\ call.field = "flags"
    /\ input.kind = "Component"
    /\ input.flags = <<"Replaceable", "Outer", "Final">>
    /\ ret # NoneV

-----------------------------------------------------------------------------
(* Claims about the conditional and loop builders, checked under SpecCond  *)

\* the classes of the equation and of the statement variant
EquationForms ==
    {"IfEquationBody", "IfEquationElseif", "IfEquationOrelse", "IfEquation",
     "WhenEquationBody", "WhenEquationElsewhen", "WhenEquation", "ForEquation",
     "WhileEquation"}

StatementForms ==
    {"IfStatementBody", "IfStatementElseif", "IfStatementOrelse", "IfStatement",
     "WhenStatementBody", "WhenStatementElsewhen", "WhenStatement", "ForStatement",
     "WhileStatement"}

ExpressionForms == {"IfExpressionBody", "IfExpressionElseif", "IfExpression"}

\* the element kind of the variant a class belongs to
FormOf(t) ==
    IF t \in EquationForms THEN "Equation"
    ELSE IF t \in StatementForms THEN "Statement"
    ELSE "Expression"

\* the kinds of the elements of a sequence
KindsOf(elements) == {elements[i].t : i \in DOMAIN elements}

\* the kinds of the elements of the branches of an elseif or elsewhen list
BranchKinds(branches) == UNION {KindsOf(branches[j].body) : j \in DOMAIN branches}

\* the kinds of the elements an equation or statement construct holds, in
\* its body, its elseif or elsewhen branches and its else branch
HeldKinds(o) ==
    KindsOf(o.body)
    \cup (IF "elseif" \in DOMAIN o THEN BranchKinds(o.elseif) ELSE {})
    \cup (IF "elsewhen" \in DOMAIN o THEN BranchKinds(o.elsewhen) ELSE {})
    \cup (IF "orelse" \notin DOMAIN o \/ o.orelse = NoneV THEN {}
          ELSE IF o.t \in {"IfEquation", "IfStatement"} THEN KindsOf(o.orelse.elems)
          ELSE KindsOf(o.orelse))

\* C16: once the first then or loop call has fixed the variant, a then,
\* loop or orelse call that supplies an element of another kind fails; and
\* no construct, finished or under construction, holds both Equation and
\* Statement elements.
C16_SingleKind ==
    /\ [][(call'.op \in {"then", "loop", "orelse"}
            /\ ret.t \in EquationForms \cup StatementForms \cup ExpressionForms
            /\ \E i \in DOMAIN call'.arg : call'.arg[i].t # FormOf(ret.t))
           => exc' # NoExc]_vars
    /\ []((ret # NoneV /\ ret.t \in EquationForms \cup StatementForms) =>
            ~({"Equation", "Statement"} \subseteq HeldKinds(ret)))

\* C17: orelse(*body) called right after the first then, with no elseif in
\* between, on an If in equation or statement form succeeds, and end() then
\* gives a construct with no elseif branch whose else branch holds exactly
\* the elements supplied.
C17_ElseWithoutElseif ==
    [][(call'.op = "orelse" /\ ret.t \in {"IfEquationBody", "IfStatementBody"}) =>
        /\ exc' = NoExc
        /\ end(ret').exc = NoExc
        /\ end(ret').ret.t = (IF ret.t = "IfEquationBody" THEN "IfEquation"
                              ELSE "IfStatement")
        /\ end(ret').ret.elseif = <<>>
        /\ end(ret').ret.orelse = ListV(call'.arg)]_vars

\* the (test, body) pairs of a finished construct, the one body of a branch
\* of an if-expression as a sequence of one
BranchesOf(o) ==
    IF o.t \in {"WhenEquation", "WhenStatement"} THEN o.elsewhen
    ELSE IF o.t = "IfExpression"
    THEN [j \in DOMAIN o.elseif |-> Branch(o.elseif[j].test, <<o.elseif[j].body>>)]
    ELSE o.elseif

\* C18: the elseif or elsewhen list of a finished If or When construct, in
\* equation, statement or expression form, holds exactly the (test, body)
\* pairs supplied through elseif, elsewhen and the then calls after them,
\* in call order.
C18_BranchesKept ==
    (exc = NoExc /\ ret # NoneV
     /\ ret.t \in {"IfEquation", "IfStatement", "IfExpression", "WhenEquation",
                    "WhenStatement"})
        => BranchesOf(ret) = input

-----------------------------------------------------------------------------
(* Claims about Assign, checked under SpecAssign *)

\* the flags include redeclare
Redeclares(flags) == flags # NoneV /\ "Redeclare" \in flags.set

\* C19: constructing an Assign with a type name and without the redeclare
\* flag (no flags, or flags that do not include it) fails and returns no
\* Assign; every Assign that was constructed with a type name carries the
\* redeclare flag.
C19_TypeNeedsRedeclare ==
    /\ (call.op = "Assign" /\ call.type # NoneV /\ ~Redeclares(call.flags)) =>
            (exc = "AssertionError" /\ input = NoneV)
    /\ (input # NoneV /\ input.type # NoneV) => Redeclares(input.flags)

\* C19 witness: the constructor was called with a type name and with flags
\* that do not include redeclare, and it failed.
C19_Witness ==
    /\ call.op = "Assign"
    /\ call.type = StrV("Real")
    /\ call.flags = FlagsV({"Each", "Final"})
    /\ exc = "AssertionError"

-----------------------------------------------------------------------------
(* Claims about booleans in value rendering, checked under SpecBool *)

\* a value with every boolean in it, at any depth, replaced by the word
\* true or false
RECURSIVE Spelled(_)
Spelled(v) ==
    CASE v.t = "bool" -> StrV(IF v.b THEN "true" ELSE "false")
      [] v.t \in {"tuple", "list"} ->
            [v EXCEPT !.elems = [i \in DOMAIN v.elems |-> Spelled(v.elems[i])]]
      [] v.t = "dict" ->
            DictV([i \in DOMAIN v.items |-> Item(v.items[i].key, Spelled(v.items[i].val))])
      [] OTHER -> v

\* the Component rendered for a map in the field of the call
Rendered(field, map) ==
    IF field = "init" THEN Component("X", "x", NoneV, map, EmptyDict)
    ELSE Component("X", "x", NoneV, NoneV, DictV(<<Item("annotation", map)>>))

\* C20: every boolean reached by value rendering is written as true or
\* false: whenever the map with the words true and false in place of its
\* booleans renders, the map itself renders to the same text, be the
\* boolean the value of an entry or an element of a tuple or list.
C20_BooleanSpelling ==
    (call.op = "pprint"
     /\ pprint(Rendered(call.field, Spelled(input)), call.opts).exc = NoExc) =>
        /\ exc = NoExc
        /\ ret = pprint(Rendered(call.field, Spelled(input)), call.opts).ret

-----------------------------------------------------------------------------
(* Claims about annotations, checked under SpecAnnotation *)

\* the text produced by the last render into the caller's stream, with the
\* pieces that are indentation left out
Unindented(text) ==
    SelectSeq(text, LAMBDA piece : piece \notin {Indent(k) : k \in 1..8})

\* how often a piece occurs in a text
Occurrences(text, piece) == Cardinality({i \in DOMAIN text : text[i] = piece})

\* the list that is the value of the entry g of a tree
ListOf(tree) == DictGet(tree, "g").elems

\* how many entries of the elements of a list have the name
EntriesNamed(es, name) ==
    Cardinality({<<i, j>> \in (DOMAIN es) \X (1..2) :
                    j \in DOMAIN es[i].items /\ es[i].items[j].key = name})

RECURSIVE ListText(_), BlockText(_)

\* a block of a list: the name of the element map and the rendering of its
\* value, a map of one entry in parentheses after the name
BlockText(e) ==
    LET it == e.items[1]
    IN  IF IsDict(it.val)
        THEN it.key \o "(" \o (IF DictGet(it.val, it.val.items[1].key).t = "list"
                               THEN it.val.items[1].key
                                    \o ListText(it.val.items[1].val.elems)
                               ELSE EntryText(it.val.items[1], 0)) \o ")"
        ELSE it.key \o "=" \o PyStr(it.val)

\* a list of maps, indentation aside: "={", a line for each block, a comma
\* between two blocks, and "}" on the line after the last
ListText(es) ==
    "={" \o NL \o Join([i \in DOMAIN es |-> BlockText(es[i])], "," \o NL) \o NL \o "}"

\* C21: a list of maps that is the value of an annotation entry is written,
\* indentation aside, as "={" after its key, one block per element in list
\* order, each on a line of its own and made of the name and the rendering
\* of the value, a comma between two blocks, and a closing "}"; when the
\* render succeeds every entry of every element map has been written once.
C21_ListOfMaps ==
    (call.op = "pprint" /\ call.owner = "Component" /\ "g" \in Keys(input)
     /\ exc = NoExc) =>
        /\ \A name \in {"L", "R", "N", "P", "Q"} :
              Occurrences(stream, name) = EntriesNamed(ListOf(input), name)
        /\ (\A i \in DOMAIN ListOf(input) : DictLen(ListOf(input)[i]) = 1) =>
              Joined(Unindented(stream)) =
                 "X x annotation ("
                 \o (IF DictLen(input) = 2 THEN "h=2," \o NL ELSE "")
                 \o "g" \o ListText(ListOf(input)) \o ");" \o NL

\* the depth at which the annotation of an owner is written: a Model writes
\* it one level in, like its sections
AnnotationDepth(kind, start) == IF kind = "Model" THEN start + 1 ELSE start

\* write_annotation of a tree by a printer of its own at a depth
Parenthesised(tree, depth) ==
    write_annotation(PrettyPrinter("  ", DefaultWidth, depth, FALSE), tree)

\* the text of an owner around the text of its annotation: a node has it
\* after a space and before its ";", the Model after its sections as a line
\* that ends with ";"
OwnerText(kind, start, annotation) ==
    LET after == IF annotation = "" THEN "" ELSE " " \o annotation
    IN  CASE kind = "Model" ->
                Indent(start) \o "model M" \o NL
                \o Indent(start) \o "equation" \o NL
                \o Indent(start + 1) \o "a = b;" \o NL
                \o (IF annotation = "" THEN "" ELSE annotation \o ";" \o NL)
                \o Indent(start) \o "end M;" \o NL
          [] kind = "Component" -> Indent(start) \o "X x" \o after \o ";" \o NL
          [] kind = "Equation" -> Indent(start) \o "a = b" \o after \o ";" \o NL
          [] kind = "Connect" ->
                Indent(start) \o "connect(x.p, y.q)" \o after \o ";" \o NL
          [] kind = "Algorithm" -> Indent(start) \o "a := b" \o after \o ";" \o NL

\* C22: every owner kind renders its annotation alike.  A tree without
\* entries gives no annotation text; a tree with entries gives the keyword
\* annotation and then the rendering of the tree, the same for every owner
\* at the same depth; the Model writes it after its sections and ends it
\* with ";".  A tree that cannot be rendered fails for every owner alike.
C22_UniformAnnotation ==
    (call.op = "pprint") =>
        LET tree == Parenthesised(input,
                        AnnotationDepth(call.owner, call.opts.start_indent))
        IN  /\ (DictLen(input) > 0) => exc = tree.exc
            /\ (DictLen(input) = 0) => exc = NoExc
            /\ (exc = NoExc) =>
                  Joined(stream) =
                     OwnerText(call.owner, call.opts.start_indent,
                               IF DictLen(input) = 0 THEN ""
                               ELSE "annotation " \o Joined(tree.stream))

-----------------------------------------------------------------------------
(* Claims about declaring components, checked under SpecComponent *)

\* the names of the placement options
PlacementNames == {PlacementOptions[i] : i \in DOMAIN PlacementOptions}

\* the call passes nothing but placement options
OnlyPlacement(c) == c.flags = NoneV /\ Keys(c.kwargs) \subseteq PlacementNames

\* the corners of a component of a size, flipped or not
Extent(flip, size) ==
    LET pair(a, b) == ListV(<<IntV(a), IntV(b)>>)
    IN  IF flip = StrV("horiz") THEN ListV(<<pair(size, -size), pair(-size, size)>>)
        ELSE IF flip = StrV("vert") THEN ListV(<<pair(-size, size), pair(size, -size)>>)
        ELSE ListV(<<pair(-size, -size), pair(size, size)>>)

\* the options of kw are in the Placement sub-tree of the annotation of c,
\* and nowhere else in c
UnderPlacement(c, kw) ==
    /\ DOMAIN c \cap PlacementNames = {}
    /\ Keys(c.init) \cap PlacementNames = {}
    /\ IF Keys(kw) = {} THEN "Placement" \notin Keys(c.annotation)
       ELSE /\ Keys(c.annotation) = {"Placement"}
            /\ LET placement == DictGet(c.annotation, "Placement")
                   transformation == DictGet(placement, "transformation")
               IN  /\ Keys(placement) \subseteq {"visible", "transformation"}
                   /\ "visible" \in Keys(kw) =>
                         KwGet(placement, "visible") = DictGet(kw, "visible")
                   /\ "pos" \in Keys(kw) =>
                         KwGet(transformation, "origin") = DictGet(kw, "pos")
                   /\ "rotation" \in Keys(kw) =>
                         KwGet(transformation, "rotation") = DictGet(kw, "rotation")
                   /\ ({"flip", "size"} \cap Keys(kw) # {}) =>
                         KwGet(transformation, "extent") =
                            Extent(KwGet(kw, "flip"),
                                   IF "size" \in Keys(kw) THEN DictGet(kw, "size").i
                                   ELSE DefaultSize)

\* C23: add_component called for a new identifier with any subset of the
\* placement options (position, rotation, flip, size, visibility) succeeds;
\* the options given are stored in the Placement sub-tree of the
\* component's annotation and are neither fields of the Component nor
\* entries of its modification map, and without any placement option the
\* annotation has no Placement entry.
C23_PlacementOptions ==
    [][(call'.op = "add_component" /\ OnlyPlacement(call')
        /\ call'.ident \notin DOMAIN model.components) =>
            /\ exc' = NoExc
            /\ call'.ident \in DOMAIN model'.components
            /\ UnderPlacement(model'.components[call'.ident], call'.kwargs)]_vars

\* the places of a section that hold a Component with the identifier
PlacesOf(section, ident) ==
    {i \in DOMAIN section : section[i].t = "Component" /\ section[i].ident = ident}

\* the identifiers of the Component nodes of a section
Declared_in(section) ==
    {section[i].ident : i \in {j \in DOMAIN section : section[j].t = "Component"}}

\* the registry and the two sections of declarations agree
RegistryKept(m) ==
    /\ DOMAIN m.components = Declared_in(m.public_section) \cup Declared_in(m.protected_section)
    /\ \A ident \in DOMAIN m.components :
          /\ Cardinality(PlacesOf(m.public_section, ident))
               + Cardinality(PlacesOf(m.protected_section, ident)) = 1
          /\ \E i \in PlacesOf(m.public_section \o m.protected_section, ident) :
                (m.public_section \o m.protected_section)[i] = m.components[ident]

\* C28: after every add_component and add_parameter call, failed or not,
\* the keys of the registry are the identifiers of the Components in the
\* public and protected sections and every registered component is at one
\* place of one of the two; a call that succeeds puts its component into
\* the protected section when protected=True was passed and into the
\* public section otherwise; a call that fails leaves the registry and
\* every section as they were.
C28_RegistryKept ==
    /\ [](RegistryKept(model))
    /\ [][/\ exc' = NoExc =>
               /\ call'.ident \in DOMAIN model'.components \ DOMAIN model.components
               /\ PlacesOf(model'.protected_section, call'.ident) # {} <=> call'.protected
          /\ exc' # NoExc => model' = model]_vars

\* a parameter is registered and in the protected section, and the call
\* after it failed
C28_Witness ==
    /\ exc # NoExc
    /\ call.op \in {"add_component", "add_parameter"}
    /\ \E i \in DOMAIN model.protected_section :
          /\ model.protected_section[i].variability = StrV("parameter")
          /\ model.protected_section[i].ident \in DOMAIN model.components

-----------------------------------------------------------------------------
(* Claims about saving, checked under SpecSave *)

\* the lines of the folder's package.order
Manifest(folder) == folder.order.elems

\* C24: a save that succeeds leaves the identifier of the Model exactly
\* once in package.order: when a line of the manifest is the identifier,
\* the lines and their order are after the save what they were before, and
\* otherwise the identifier is the new last line after the lines there were.
C24_ManifestOnce ==
    [][(call'.op = "save" /\ exc' = NoExc) =>
        /\ Occurrences(Manifest(input'), Chars(call'.ident)) = 1
        /\ IF Occurrences(Manifest(input), Chars(call'.ident)) > 0
           THEN Manifest(input') = Manifest(input)
           ELSE Manifest(input') = Append(Manifest(input), Chars(call'.ident))]_vars

-----------------------------------------------------------------------------
(* Claims about the state of the printer, checked under SpecVisit *)

\* the position of the last line break among the first n pieces of a text,
\* 0 if there is none
RECURSIVE LastBreak(_, _)
LastBreak(text, n) ==
    IF n = 0 THEN 0
    ELSE IF text[n] = NL THEN n
    ELSE LastBreak(text, n - 1)

\* the characters among the first n pieces that follow the last line break
Column(text, n) == TextLen(SubSeq(text, LastBreak(text, n) + 1, n))

\* C25: after every write and every print of a visit, curpos is the number
\* of characters written to the stream since the last line break, 0 right
\* after a line break.
C25_ColumnPosition ==
    (call.op = "visit") =>
        \A i \in DOMAIN memo.seen :
            memo.seen[i].by \in {"write", "print"} =>
                memo.seen[i].curpos = Column(stream, memo.seen[i].n)


\* the depths the looks of a visit saw
DepthsSeen == {memo.seen[i].indent : i \in DOMAIN memo.seen}

\* C26: whatever tree is visited (a Model, a Component with nested
\* modification maps, an annotation tree with nested lists and maps, an
\* if-equation), the depth is at no point of the visit less than the depth
\* the visit started at, and when the visit ends without an exception the
\* depth is the depth it started at.
C26_IndentBalanced ==
    (call.op = "visit") =>
        /\ \A d \in DepthsSeen : d >= call.start_indent
        /\ (exc = NoExc) => printer.indent = call.start_indent

\* C26 witness: a Component whose modification map has three or more
\* entries, one of them a map of three or more entries, was visited from
\* depth 1 without an exception, and the depth went up to 3 on the way.
C26_Witness ==
    /\ call.op = "visit"
    /\ call.start_indent = 1
    /\ input.t = "Component"
    /\ DictLen(input.init) >= 3
    /\ NestsMapOf(input.init, 3)
    /\ exc = NoExc
    /\ 3 \in DepthsSeen
    /\ printer.indent = 1

-----------------------------------------------------------------------------
(* Claims about finished constructs and the stages they came from, checked *)
(* under SpecShare                                                          *)

\* the branches of the list at an address, each with the equations of its body
BranchesAt(h, a) == [i \in DOMAIN h[a] |-> Branch(h[a][i].test, h[h[a][i].body])]

\* what a finished construct holds, list by list
Held(h, c) ==
    IF c.t = "IfEquation"
    THEN IfEquation(c.test, h[c.body], BranchesAt(h, c.elseif),
                    IF c.orelse = NoneV THEN NoneV ELSE h[c.orelse])
    ELSE WhenEquation(c.test, h[c.body], BranchesAt(h, c.elsewhen))

\* the addresses of the lists of a construct: body, branches, bodies of the
\* branches, else branch
ListsOf(h, c) ==
    LET branches == IF c.t = "IfEquation" THEN c.elseif ELSE c.elsewhen
    IN  {c.body, branches}
        \cup {h[branches][i].body : i \in DOMAIN h[branches]}
        \cup (IF c.t = "IfEquation" /\ c.orelse # NoneV THEN {c.orelse} ELSE {})

\* C27: a construct that end() has returned holds after every later call on
\* a stage (then, elseif, elsewhen, orelse, end) the body, the branches and
\* the else branch it held before the call, and no two constructs returned
\* have a list in common.
C27_FinishedUnaffected ==
    /\ [][\A i \in DOMAIN input :
            Held(memo'.lists, input[i]) = Held(memo.lists, input[i])]_vars
    /\ [](\A i, j \in DOMAIN input :
            i # j => ListsOf(memo.lists, input[i]) \cap ListsOf(memo.lists, input[j]) = {})

-----------------------------------------------------------------------------
(* Claims about the text of an if-equation, checked under SpecVisit *)

\* the equations of a branch, each on a line of its own at a depth
RECURSIVE EquationLines(_, _)
EquationLines(body, depth) ==
    IF body = <<>> THEN ""
    ELSE Indent(depth) \o Head(body).left \o " = " \o Head(body).right \o ";" \o NL
         \o EquationLines(Tail(body), depth)

\* the elseif branches: the line of the test at a depth, the equations
\* one level deeper
RECURSIVE ElseifLines(_, _)
ElseifLines(branches, depth) ==
    IF branches = <<>> THEN ""
    ELSE Indent(depth) \o "elseif " \o Head(branches).test.value \o " then" \o NL
         \o EquationLines(Head(branches).body, depth + 1)
         \o ElseifLines(Tail(branches), depth)

\* C29: the text of an if-equation without else branch visited at a depth
\* is the line 'if <test> then' at that depth, every Equation of the body
\* once on a line of its own one level deeper and ended by one ';', for
\* each elseif branch the line 'elseif <test> then' at the depth of the
\* 'if' line followed by a line break and the branch's Equations one level
\* deeper, and the line 'end if;' at the depth of the 'if' line.
C29_IfEquationLayout ==
    (call.op = "visit" /\ input.t = "IfEquation" /\ input.orelse = NoneV) =>
        Joined(stream) =
            Indent(call.start_indent) \o "if " \o input.test.value \o " then" \o NL
            \o EquationLines(input.body, call.start_indent + 1)
            \o ElseifLines(input.elseif, call.start_indent)
            \o Indent(call.start_indent) \o "end if;" \o NL

-----------------------------------------------------------------------------
(* Claims about comments, checked under SpecComment *)

\* the line of a comment at a place: the prefix of the type, the input
\* line, and the end of the block on the last line of a block type
CommentLine(lines, type, i) ==
    (IF i = 1 THEN CommentPrefixes(type).start_prefix ELSE CommentPrefixes(type).prefix)
    \o lines[i]
    \o (IF i = Len(lines) /\ type \in {"/*", "/**"} THEN " */" ELSE "")

\* C30: add_comment with one or more lines adds a Text that has one line
\* for each input line, in the order of the input, each made of the prefix
\* of the comment type and the input line; ' */' ends the last line when
\* the type is '/*' or '/**', and ends no line when the type is '//',
\* '///' or ''.
C30_CommentLines ==
    [][(call'.op = "add_comment" /\ Len(call'.lines) >= 1) =>
          /\ exc' = NoExc
          /\ LET text == model'.public_section[Len(model'.public_section)]
             IN  /\ text.t = "Text"
                 /\ Len(text.lines) = Len(call'.lines)
                 /\ \A i \in DOMAIN text.lines :
                       text.lines[i] = CommentLine(call'.lines, call'.type, i)]_vars

=============================================================================
